---- MODULE Spec2Model ----
(***************************************************************************)
(* A model of the jigsnap geometry core: contour simplification (RDP),     *)
(* candidate deduplication / classification / auto-selection, jig sizing   *)
(* and the binary STL mesh generator; the placement of the cutout in the   *)
(* exports, scale calibration, contour offsetting, bounding-box IoU,       *)
(* corner ordering, the native handles of the detector, point in polygon,  *)
(* polygon area, the deduplication loop step by step, the OpenCV loader    *)
(* and the wizard of the page.  Each part has its own specification over   *)
(* its own variables; the other parts rest.                                *)
(*                                                                         *)
(* Numbers.  Pixel coordinates are integers (the detector rounds them).    *)
(* Distances are kept squared, as exact fractions <<num, den>>, so that    *)
(* every comparison the code makes on Math.sqrt values is made on the      *)
(* exact real values.  A tolerance is counted in halves of a pixel         *)
(* (the UI passes simplifyLevel * 1.5).                                    *)
(***************************************************************************)
EXTENDS Integers, Sequences, FiniteSets, TLC

VARIABLES
  \* --- simplifier (src/lib/contour.ts simplifyContour and its caller)
  points,        \* the raw polygon handed to simplifyContour
  tolerance,     \* the tolerance of the last call, in half pixels
  simplified,    \* simplifyContour(points, tolerance)
  again,         \* simplifyContour(simplified, tolerance), once taken
  againDone,     \* whether the second pass has been taken
  \* --- detection (detectAllContours, doDetectContours, detectContour)
  traced,        \* the top-level contours the three passes trace, in order
  imageScale,    \* scale = 1 / getImageScale(image)
  contours,      \* the component's candidate list (setContours)
  selectedIndex, \* the component's selection, -1 for none (0-based)
  detectDone,    \* doDetectContours has run
  legacyResult,  \* what detectContour returned: <<>> for null, else <<c>>
  legacyDone,    \* detectContour has run
  \* --- STL export (src/lib/stl-export.ts generateSTL)
  stlContour,    \* contour.points, pixels
  stlJigSize,    \* jigSize, <<width, height>>
  stlConfig,     \* [paddingMm, thicknessMm, pocketDepthMm], -1 for null
  stlPixelsPerMm,
  holeIndices,   \* the hole list handed to earcut for the top face
  triangles,     \* the triangles pushed, in order
  sections,      \* how many triangles each of the four steps pushed
  stlBuffer,     \* the ArrayBuffer returned: <<>> for none, else <<buffer>>
  stlDone,       \* generateSTL has returned
  \* --- jig sizing (src/lib/jig-utils.ts computeSquareJigSizeMm)
  jigBounds,     \* contourBounds, <<width, height>> in pixels
  jigPixelsPerMm,
  jigSizeMm,     \* the side length returned, mm
  jigDone,       \* computeSquareJigSizeMm has returned
  \* --- export placement (page.tsx, ExportPanel, generateSTL, generateSVG)
  expContour,    \* the page's contour: <<>> for null, else its points, pixels
  expBounds,     \* the page's contourBounds: <<>> for null, else <<w, h>>
  expPixelsPerMm,
  expPaddingMm,  \* config.paddingMm
  expStl,        \* placement in the STL: <<>> before, else <<[rect, cutout]>>
  expSvg,        \* placement in the SVG: <<>> before, else <<[rect, cutout]>>
  \* --- scale calibration (ScaleCalibration.tsx, calculatePixelsPerMm)
  calA4Paper,    \* the a4Paper prop: <<>> for null, else <<width, height>>
  calUseManual,  \* useManual
  calReference,  \* manualReference, [lengthPx, lengthMm]
  calMounted,    \* the effects of the first render have run
  calReported,   \* last onCalibrationChange argument: <<>> or <<calibration>>
  calScales,     \* calculatePixelsPerMm results: <<>> or <<record>>
  \* --- contour offset (src/lib/contour.ts offsetContour)
  offPoints,     \* points, coordinates in half pixels
  offOffsetPx,   \* offsetPx, whole pixels
  offResult,     \* what offsetContour returned, coordinates in half pixels
  offDone,       \* offsetContour has returned
  \* --- bounding-box IoU (src/lib/contour.ts calculateBoundingBoxIoU)
  iouA,          \* contourA
  iouB,          \* contourB
  iouAB,         \* calculateBoundingBoxIoU(A, B): <<>> before, else <<iou>>
  iouAA,         \* calculateBoundingBoxIoU(A, A): <<>> before, else <<iou>>
  \* --- corner ordering (src/lib/contour.ts sortCorners)
  cornersA,      \* the 4 corners in one input order
  cornersB,      \* the same 4 corners in another input order
  sortedA,       \* sortCorners(cornersA): <<>> before the call
  sortedB,       \* sortCorners(cornersB): <<>> before the call
  \* --- native handles of detectAllContours (src/lib/contour.ts:69-291)
  matPc,         \* where the call is
  matPass,       \* the detection pass: 1 canny, 2 adaptive, 3 binary
  matLeft,       \* contours of the pass still to visit
  matMats,       \* each Mat / MatVector: "none", "live", "deleted", "twice"
  matThrown,     \* an exception is propagating
  matOutcome,    \* "running", "returned" or "threw"
  \* --- point in polygon (src/lib/contour.ts pointInPolygon)
  pipPolygon,    \* the polygon
  pipPoint,      \* the point tested
  pipResults,    \* the answer for each starting index of the vertex list
  pipDone,       \* the answers have been computed
  \* --- polygon area (src/lib/contour-detect.ts calculatePolygonArea)
  areaPoints,    \* the polygon
  areaVector,    \* a translation
  areaOf,        \* the areas computed, in half square pixels: <<>> before
  areaReported,  \* the area the offset effect reports: <<>> before or none
  \* --- deduplication loop (src/lib/contour.ts:244-264)
  dedupAll,      \* allContours
  dedupIndex,    \* how many candidates the outer loop has taken
  dedupUnique,   \* uniqueContours
  dedupLast,     \* what the last turn did: "none", "pushed", "replaced", "discarded"
  \* --- OpenCV loader (src/unnamed/part_006 loadOpenCV, getCv)
  cvInstance,    \* TRUE once cvInstance holds window.cv
  loadPromise,   \* 0 for null, else the number of the promise it holds
  promises,      \* every promise made so far: "pending", "resolved", "rejected"
  windowCv,      \* window.cv && window.cv.Mat
  scripts,       \* the script elements appended, with their progress
  calls,         \* the calls of loadOpenCV so far and what each one received
  getCvLog,      \* the calls of getCv so far
  \* --- wizard (src/app/page.tsx Home)
  currentStep,        \* 1..4
  imageUrl,           \* 0 for null, else the number of the uploaded image
  wizContour,         \* contour: 0 for null, else the image it was traced on
  wizContourBounds,   \* contourBounds: 0 for null, else the image it is of
  wizA4Paper,         \* a4Paper is not null
  scaleCalibration,   \* "null", "auto" or "manual"
  jigConfig,          \* jigConfig is not null
  previewTab,         \* "2d" or "3d"
  wizUseManual,       \* useManual of the mounted ScaleCalibration
  uploads             \* object URLs created so far

simplifyVars == <<points, tolerance, simplified, again, againDone>>
detectVars == <<traced, imageScale, contours, selectedIndex, detectDone,
                legacyResult, legacyDone>>

stlVars == <<stlContour, stlJigSize, stlConfig, stlPixelsPerMm, holeIndices,
             triangles, sections, stlBuffer, stlDone>>

jigVars == <<jigBounds, jigPixelsPerMm, jigSizeMm, jigDone>>

exportVars == <<expContour, expBounds, expPixelsPerMm, expPaddingMm, expStl,
                expSvg>>

calVars == <<calA4Paper, calUseManual, calReference, calMounted, calReported,
             calScales>>

offsetVars == <<offPoints, offOffsetPx, offResult, offDone>>

iouVars == <<iouA, iouB, iouAB, iouAA>>

cornerVars == <<cornersA, cornersB, sortedA, sortedB>>

matVars == <<matPc, matPass, matLeft, matMats, matThrown, matOutcome>>

pipVars == <<pipPolygon, pipPoint, pipResults, pipDone>>

areaVars == <<areaPoints, areaVector, areaOf, areaReported>>

dedupVars == <<dedupAll, dedupIndex, dedupUnique, dedupLast>>

loaderVars == <<cvInstance, loadPromise, promises, windowCv, scripts, calls,
                getCvLog>>

wizardVars == <<currentStep, imageUrl, wizContour, wizContourBounds,
                wizA4Paper, scaleCalibration, jigConfig, previewTab,
                wizUseManual, uploads>>

vars ==
  <<simplifyVars, detectVars, stlVars, jigVars,
    exportVars, calVars, offsetVars, iouVars,
    cornerVars, matVars, pipVars, areaVars,
    dedupVars, loaderVars, wizardVars>>

\* What each part's actions leave alone.
notExportVars ==
  <<simplifyVars, detectVars, stlVars, jigVars,
    calVars, offsetVars, iouVars, cornerVars,
    matVars, pipVars, areaVars, dedupVars,
    loaderVars, wizardVars>>

notCalibrationVars ==
  <<simplifyVars, detectVars, stlVars, jigVars,
    exportVars, offsetVars, iouVars, cornerVars,
    matVars, pipVars, areaVars, dedupVars,
    loaderVars, wizardVars>>

notOffsetVars ==
  <<simplifyVars, detectVars, stlVars, jigVars,
    exportVars, calVars, iouVars, cornerVars,
    matVars, pipVars, areaVars, dedupVars,
    loaderVars, wizardVars>>

notIouVars ==
  <<simplifyVars, detectVars, stlVars, jigVars,
    exportVars, calVars, offsetVars, cornerVars,
    matVars, pipVars, areaVars, dedupVars,
    loaderVars, wizardVars>>

notCornersVars ==
  <<simplifyVars, detectVars, stlVars, jigVars,
    exportVars, calVars, offsetVars, iouVars,
    matVars, pipVars, areaVars, dedupVars,
    loaderVars, wizardVars>>

notMatsVars ==
  <<simplifyVars, detectVars, stlVars, jigVars,
    exportVars, calVars, offsetVars, iouVars,
    cornerVars, pipVars, areaVars, dedupVars,
    loaderVars, wizardVars>>

notPipVars ==
  <<simplifyVars, detectVars, stlVars, jigVars,
    exportVars, calVars, offsetVars, iouVars,
    cornerVars, matVars, areaVars, dedupVars,
    loaderVars, wizardVars>>

notAreaVars ==
  <<simplifyVars, detectVars, stlVars, jigVars,
    exportVars, calVars, offsetVars, iouVars,
    cornerVars, matVars, pipVars, dedupVars,
    loaderVars, wizardVars>>

notDedupVars ==
  <<simplifyVars, detectVars, stlVars, jigVars,
    exportVars, calVars, offsetVars, iouVars,
    cornerVars, matVars, pipVars, areaVars,
    loaderVars, wizardVars>>

notLoaderVars ==
  <<simplifyVars, detectVars, stlVars, jigVars,
    exportVars, calVars, offsetVars, iouVars,
    cornerVars, matVars, pipVars, areaVars,
    dedupVars, wizardVars>>

notWizardVars ==
  <<simplifyVars, detectVars, stlVars, jigVars,
    exportVars, calVars, offsetVars, iouVars,
    cornerVars, matVars, pipVars, areaVars,
    dedupVars, loaderVars>>

notSimplifyVars ==
  <<detectVars, stlVars, jigVars, exportVars,
    calVars, offsetVars, iouVars, cornerVars,
    matVars, pipVars, areaVars, dedupVars,
    loaderVars, wizardVars>>
notDetectVars ==
  <<simplifyVars, stlVars, jigVars, exportVars,
    calVars, offsetVars, iouVars, cornerVars,
    matVars, pipVars, areaVars, dedupVars,
    loaderVars, wizardVars>>
notStlVars ==
  <<simplifyVars, detectVars, jigVars, exportVars,
    calVars, offsetVars, iouVars, cornerVars,
    matVars, pipVars, areaVars, dedupVars,
    loaderVars, wizardVars>>
notJigVars ==
  <<simplifyVars, detectVars, stlVars, exportVars,
    calVars, offsetVars, iouVars, cornerVars,
    matVars, pipVars, areaVars, dedupVars,
    loaderVars, wizardVars>>

\* A part's variables while the specification of another part runs.
SimplifyIdle ==
  /\ points = <<>>
  /\ tolerance = 0
  /\ simplified = <<>>
  /\ again = <<>>
  /\ againDone = FALSE

DetectIdle ==
  /\ traced = <<>>
  /\ imageScale = 1
  /\ contours = <<>>
  /\ selectedIndex = -1
  /\ detectDone = FALSE
  /\ legacyResult = <<>>
  /\ legacyDone = FALSE

NoSections == [bottom |-> 0, top |-> 0, outer |-> 0, inner |-> 0]

StlIdle ==
  /\ stlContour = <<>>
  /\ stlJigSize = <<0, 0>>
  /\ stlConfig = [paddingMm |-> 0, thicknessMm |-> 0, pocketDepthMm |-> -1]
  /\ stlPixelsPerMm = 1
  /\ holeIndices = <<>>
  /\ triangles = <<>>
  /\ sections = NoSections
  /\ stlBuffer = <<>>
  /\ stlDone = FALSE

ExportIdle ==
  /\ expContour = <<>>
  /\ expBounds = <<>>
  /\ expPixelsPerMm = 1
  /\ expPaddingMm = 0
  /\ expStl = <<>>
  /\ expSvg = <<>>

CalibrationIdle ==
  /\ calA4Paper = <<>>
  /\ calUseManual = TRUE
  /\ calReference = [lengthPx |-> 100, lengthMm |-> 10]
  /\ calMounted = FALSE
  /\ calReported = <<>>
  /\ calScales = <<>>

OffsetIdle ==
  /\ offPoints = <<>>
  /\ offOffsetPx = 0
  /\ offResult = <<>>
  /\ offDone = FALSE

IouIdle ==
  /\ iouA = <<>>
  /\ iouB = <<>>
  /\ iouAB = <<>>
  /\ iouAA = <<>>

CornersIdle ==
  /\ cornersA = <<>>
  /\ cornersB = <<>>
  /\ sortedA = <<>>
  /\ sortedB = <<>>

MatsIdle ==
  /\ matPc = "idle"
  /\ matPass = 0
  /\ matLeft = 0
  /\ matMats = <<>>
  /\ matThrown = FALSE
  /\ matOutcome = "running"

PipIdle ==
  /\ pipPolygon = <<>>
  /\ pipPoint = <<0, 0>>
  /\ pipResults = <<>>
  /\ pipDone = TRUE

AreaIdle ==
  /\ areaPoints = <<>>
  /\ areaVector = <<0, 0>>
  /\ areaOf = <<>>
  /\ areaReported = <<>>

DedupIdle ==
  /\ dedupAll = <<>>
  /\ dedupIndex = 0
  /\ dedupUnique = <<>>
  /\ dedupLast = "none"

LoaderIdle ==
  /\ cvInstance = FALSE
  /\ loadPromise = 0
  /\ promises = <<>>
  /\ windowCv = FALSE
  /\ scripts = <<>>
  /\ calls = <<>>
  /\ getCvLog = {}

WizardIdle ==
  /\ currentStep = 1
  /\ imageUrl = 0
  /\ wizContour = 0
  /\ wizContourBounds = 0
  /\ wizA4Paper = FALSE
  /\ scaleCalibration = "null"
  /\ jigConfig = FALSE
  /\ previewTab = "2d"
  /\ wizUseManual = FALSE
  /\ uploads = 0

JigIdle ==
  /\ jigBounds = <<0, 0>>
  /\ jigPixelsPerMm = 1
  /\ jigSizeMm = 0
  /\ jigDone = FALSE

----------------------------------------------------------------------------
(* Bounds of the model *)

MaxPolyLen == 5        \* longest input polygon of the simplifier
MaxTolHalves == 4      \* largest tolerance, in half pixels (4 = 2.0 px)

\* Pixel coordinates the input polygons are drawn from.
CoordsX == {0, 1, 2}
CoordsY == {0, 1}
GridPoints == CoordsX \X CoordsY

\* The sequences of n distinct elements of S.
RECURSIVE DistinctSeqs(_, _)
DistinctSeqs(S, n) ==
  IF n = 0 THEN { <<>> }
  ELSE UNION { { Append(s, e) : e \in S \ { s[i] : i \in 1..Len(s) } } :
               s \in DistinctSeqs(S, n - 1) }

\* Polygons of 2..MaxPolyLen distinct grid points (2 is below the polygon
\* minimum and exercises the early return).
PolygonInputs == UNION { DistinctSeqs(GridPoints, n) : n \in 2..MaxPolyLen }

Tolerances == 0..MaxTolHalves

----------------------------------------------------------------------------
(* simplifyContour, src/lib/contour.ts:495-531 *)

Sq(v) == v * v

\* Squared Euclidean distance of two points, as a fraction.
Dist2(p, q) == << Sq(p[1] - q[1]) + Sq(p[2] - q[2]), 1 >>

\* pointToLineDistance(p, a, b), squared.  t is clamped to [0, 1], so the
\* distance is the one to the segment: to a when the projection falls before
\* a, to b when it falls after b, else the perpendicular distance
\* cross^2 / len2.
pointToLineDistance(p, a, b) ==
  LET dx == b[1] - a[1]
      dy == b[2] - a[2]
      len2 == dx * dx + dy * dy
      dot == (p[1] - a[1]) * dx + (p[2] - a[2]) * dy
      crs == (p[1] - a[1]) * dy - (p[2] - a[2]) * dx
  IN  IF len2 = 0 THEN Dist2(p, a)
      ELSE IF dot <= 0 THEN Dist2(p, a)
      ELSE IF dot >= len2 THEN Dist2(p, b)
      ELSE << crs * crs, len2 >>

\* d > maxDist on two squared distances.
FracGreater(d, m) == d[1] * m[2] > m[1] * d[2]

\* maxDist > eps, eps in half pixels.
Exceeds(maxDist, eps) == 4 * maxDist[1] > eps * eps * maxDist[2]

\* The scan of rdp: the first index of the largest distance, <<maxDist, maxIdx>>
\* after looking at indices 2..k (1-based; the code's i = 1..length-2).
RECURSIVE MaxScanFromSecond(_, _)
MaxScanFromSecond(pts, k) ==
  IF k < 3 THEN << <<0, 1>>, 1 >>
  ELSE LET prev == MaxScanFromSecond(pts, k - 1)
           d == pointToLineDistance(pts[k], pts[1], pts[Len(pts)])
       IN  IF FracGreater(d, prev[1]) THEN << d, k >> ELSE prev

RECURSIVE MaxScan(_, _)
MaxScan(pts, k) ==
  IF k < 2 THEN << <<0, 1>>, 1 >>
  ELSE LET prev == MaxScan(pts, k - 1)
           d == pointToLineDistance(pts[k], pts[1], pts[Len(pts)])
       IN  IF FracGreater(d, prev[1]) THEN << d, k >> ELSE prev

\* pts.slice(0, maxIdx + 1) and pts.slice(maxIdx), 1-based.
LeftPart(pts, maxIdx) == SubSeq(pts, 1, maxIdx)
RightPart(pts, maxIdx) == SubSeq(pts, maxIdx, Len(pts))

\* left.slice(0, -1).concat(right)
Join(left, right) == SubSeq(left, 1, Len(left) - 1) \o right

RECURSIVE rdp(_, _)
rdp(pts, eps) ==
  IF Len(pts) <= 2 THEN pts
  ELSE LET scan == MaxScan(pts, Len(pts) - 1)
           maxDist == scan[1]
           maxIdx == scan[2]
       IN  IF Exceeds(maxDist, eps)
           THEN Join(rdp(LeftPart(pts, maxIdx), eps),
                     rdp(RightPart(pts, maxIdx), eps))
           ELSE << pts[1], pts[Len(pts)] >>

\* The RDP pass of simplifyContour on the closed polygon, with the duplicate
\* closing point popped: what the fallback test looks at.
rdpPass(pts, eps) ==
  LET closed == Append(pts, pts[1])
      s == rdp(closed, eps)
  IN  IF Len(s) > 1 /\ s[1] = s[Len(s)]
      THEN SubSeq(s, 1, Len(s) - 1)
      ELSE s

\* simplified.length >= 3 ? simplified : points
FallbackNever(s, pts) == s
FallbackAtFour(s, pts) == IF Len(s) >= 4 THEN s ELSE pts
Fallback(s, pts) == IF Len(s) >= 3 THEN s ELSE pts

simplifyContour(pts, eps) ==
  IF Len(pts) <= 3 THEN pts
  ELSE Fallback(rdpPass(pts, eps), pts)

----------------------------------------------------------------------------
(* detectAllContours, src/lib/contour.ts:69-291, from the traced contours on *)

\* canvas.width * canvas.height of the processed image.
ImageArea == 100

\* Most contours the three passes trace together.
MaxTraced == 3

\* Traced polygons, as pushed (smoothed, scaled, rounded): A4 and A5 share a
\* bounding box and differ in vertex count; B4 overlaps A by a third of the
\* union; C6 overlaps both A and B by three fifths; D2 has too few points.
A4 == << <<0, 0>>, <<4, 0>>, <<4, 2>>, <<0, 2>> >>
A5 == << <<0, 0>>, <<2, 0>>, <<4, 0>>, <<4, 2>>, <<0, 2>> >>
B4 == << <<2, 0>>, <<6, 0>>, <<6, 2>>, <<2, 2>> >>
C6 == << <<1, 0>>, <<3, 0>>, <<5, 0>>, <<5, 2>>, <<3, 2>>, <<1, 2>> >>
D2 == << <<0, 0>>, <<4, 2>> >>

\* A traced contour: its points and cv.contourArea of it (processed pixels).
\* Areas 10 and 30 are an object and a sheet of paper in an image of area
\* 100; 0 and 96 fall outside the accepted range, 95 is the largest area
\* inside it and 25 the largest area of an object.
TracedContours ==
  { [pts |-> p, area |-> a] : p \in {A4, A5, B4, C6}, a \in {10, 30} }
  \cup { [pts |-> A4, area |-> 0], [pts |-> A4, area |-> 96],
         [pts |-> D2, area |-> 10],
         [pts |-> A4, area |-> 95], [pts |-> B4, area |-> 25] }

RECURSIVE SeqsUpTo(_, _)
SeqsUpTo(S, n) ==
  IF n = 0 THEN { <<>> }
  ELSE LET shorter == SeqsUpTo(S, n - 1)
       IN  shorter \cup { Append(s, e) : s \in { t \in shorter : Len(t) = n - 1 },
                                         e \in S }

TracedInputs == SeqsUpTo(TracedContours, MaxTraced)

ImageScales == {1, 2}

\* The pass that traced the i-th contour: Canny runs first, then the
\* adaptive threshold, then OTSU.
MethodOf(i) == IF i = 1 THEN "canny" ELSE IF i = 2 THEN "adaptive" ELSE "binary"

MinOf(S) == CHOOSE m \in S : \A x \in S : m <= x
MaxOf(S) == CHOOSE m \in S : \A x \in S : m >= x

getBounds(pts) ==
  [ minX |-> MinOf({ pts[i][1] : i \in 1..Len(pts) }),
    minY |-> MinOf({ pts[i][2] : i \in 1..Len(pts) }),
    maxX |-> MaxOf({ pts[i][1] : i \in 1..Len(pts) }),
    maxY |-> MaxOf({ pts[i][2] : i \in 1..Len(pts) }) ]

\* The quotient without the early return for boxes that do not overlap.
calculateBoundingBoxIoUAlwaysDivides(contourA, contourB) ==
  LET a == getBounds(contourA)
      b == getBounds(contourB)
      interArea == (MinOf({a.maxX, b.maxX}) - MaxOf({a.minX, b.minX}))
                     * (MinOf({a.maxY, b.maxY}) - MaxOf({a.minY, b.minY}))
      areaA == (a.maxX - a.minX) * (a.maxY - a.minY)
      areaB == (b.maxX - b.minX) * (b.maxY - b.minY)
  IN  << interArea, areaA + areaB - interArea >>

\* calculateBoundingBoxIoU as the fraction <<interArea, unionArea>>; <<0, 1>>
\* is the 0 of the early return.
calculateBoundingBoxIoU(contourA, contourB) ==
  LET a == getBounds(contourA)
      b == getBounds(contourB)
      interMinX == MaxOf({a.minX, b.minX})
      interMinY == MaxOf({a.minY, b.minY})
      interMaxX == MinOf({a.maxX, b.maxX})
      interMaxY == MinOf({a.maxY, b.maxY})
      interArea == (interMaxX - interMinX) * (interMaxY - interMinY)
      areaA == (a.maxX - a.minX) * (a.maxY - a.minY)
      areaB == (b.maxX - b.minX) * (b.maxY - b.minY)
  IN  IF interMinX >= interMaxX \/ interMinY >= interMaxY THEN <<0, 1>>
      ELSE << interArea, areaA + areaB - interArea >>

\* iou > 0.5
IsDuplicateIoU(iou) == 2 * iou[1] > iou[2]

\* area >= imageArea * MIN_CONTOUR_AREA_RATIO && area <= imageArea *
\* MAX_CONTOUR_AREA_RATIO, with the ratios 0.001 and 0.95.
AreaAcceptedNoMaximum(area) == 1000 * area >= ImageArea
AreaAccepted(area) ==
  /\ 1000 * area >= ImageArea
  /\ 100 * area <= 95 * ImageArea

\* The three passes' loops: the accepted contours with at least 3 points, in
\* the order traced, their areas in original-image pixels.
RECURSIVE PushAccepted(_, _, _)
PushAccepted(tr, scale, k) ==
  IF k = 0 THEN <<>>
  ELSE LET before == PushAccepted(tr, scale, k - 1)
           t == tr[k]
       IN  IF AreaAccepted(t.area) /\ Len(t.pts) >= 3
           THEN Append(before, [contour |-> t.pts,
                                area |-> t.area * scale * scale,
                                method |-> MethodOf(k)])
           ELSE before

AllContours(tr, scale) == PushAccepted(tr, scale, Len(tr))

\* The inner loop of the deduplication: the index of the first accepted entry
\* whose IoU with the candidate is above 0.5, or 0.
FirstDuplicate(unique, candidate) ==
  LET hits == { k \in 1..Len(unique) :
                  IsDuplicateIoU(calculateBoundingBoxIoU(candidate.contour,
                                                         unique[k].contour)) }
  IN  IF hits = {} THEN 0 ELSE MinOf(hits)

\* candidate.contour.length > existing.contour.length
ReplacesNever(candidate, existing) == FALSE
ReplacesWhenFewer(candidate, existing) ==
  Len(candidate.contour) < Len(existing.contour)
Replaces(candidate, existing) ==
  Len(candidate.contour) > Len(existing.contour)

\* One turn of the outer loop of the deduplication.
DedupStep(unique, candidate) ==
  LET k == FirstDuplicate(unique, candidate)
  IN  IF k = 0 THEN Append(unique, candidate)
      ELSE IF Replaces(candidate, unique[k])
           THEN [unique EXCEPT ![k] = candidate]
           ELSE unique

RECURSIVE DedupFirst(_, _)
DedupFirst(all, k) ==
  IF k = 0 THEN <<>> ELSE DedupStep(DedupFirst(all, k - 1), all[k])

Deduplicate(all) == DedupFirst(all, Len(all))

\* c.area > imageArea * scale * scale * PAPER_AREA_THRESHOLD (0.25)
IsPaperAreaInclusive(area, scale) == 4 * area >= ImageArea * scale * scale
IsPaperArea(area, scale) == 4 * area > ImageArea * scale * scale

Classify(unique, scale) ==
  [ k \in 1..Len(unique) |->
      [ points |-> unique[k].contour,
        area |-> unique[k].area,
        isPaper |-> IsPaperArea(unique[k].area, scale),
        detectionMethod |-> unique[k].method ] ]

\* candidates.sort((a, b) => b.area - a.area): a stable sort, larger areas
\* first.
InsertAtEnd(sorted, c) == Append(sorted, c)
RECURSIVE InsertByArea(_, _)
InsertByArea(sorted, c) ==
  IF sorted = <<>> THEN << c >>
  ELSE LET last == sorted[Len(sorted)]
       IN  IF last.area >= c.area THEN Append(sorted, c)
           ELSE Append(InsertByArea(SubSeq(sorted, 1, Len(sorted) - 1), c), last)

RECURSIVE SortFirst(_, _)
SortFirst(cs, k) ==
  IF k = 0 THEN <<>> ELSE InsertByArea(SortFirst(cs, k - 1), cs[k])

SortByAreaDescending(cs) == SortFirst(cs, Len(cs))

detectAllContours(tr, scale) ==
  SortByAreaDescending(Classify(Deduplicate(AllContours(tr, scale)), scale))

\* detected.findIndex(c => !c.isPaper), 0-based, -1 when there is none.
FirstObjectIndex(detected) ==
  LET objs == { k \in 1..Len(detected) : ~detected[k].isPaper }
  IN  IF objs = {} THEN -1 ELSE MinOf(objs) - 1

----------------------------------------------------------------------------
(* The detection specification: an image has been traced; the component's   *)
(* doDetectContours and the library's detectContour each run on it.         *)

DetectInit ==
  /\ traced \in TracedInputs
  /\ imageScale \in ImageScales
  /\ contours = <<>>
  /\ selectedIndex = -1
  /\ detectDone = FALSE
  /\ legacyResult = <<>>
  /\ legacyDone = FALSE

\* ContourDetector.doDetectContours: the selection is set only when a
\* candidate that is not paper exists.
DoDetectContours ==
  /\ ~detectDone
  /\ LET detected == detectAllContours(traced, imageScale)
         firstObj == FirstObjectIndex(detected)
     IN  /\ contours' = detected
         /\ selectedIndex' = IF firstObj # -1 THEN firstObj ELSE selectedIndex
  /\ detectDone' = TRUE
  /\ UNCHANGED <<traced, imageScale, legacyResult, legacyDone>>
  /\ UNCHANGED notDetectVars

\* contour.ts detectContour: the first candidate that is not paper, else the
\* first candidate, else null.
DetectContour ==
  /\ ~legacyDone
  /\ LET candidates == detectAllContours(traced, imageScale)
         firstObj == FirstObjectIndex(candidates)
     IN  legacyResult' =
           IF firstObj # -1
           THEN << [points |-> candidates[firstObj + 1].points,
                    area |-> candidates[firstObj + 1].area] >>
           ELSE IF Len(candidates) > 0
           THEN << [points |-> candidates[1].points,
                    area |-> candidates[1].area] >>
           ELSE <<>>
  /\ legacyDone' = TRUE
  /\ UNCHANGED <<traced, imageScale, contours, selectedIndex, detectDone>>
  /\ UNCHANGED notDetectVars

DetectNext ==
  \/ DoDetectContours
  \/ DetectContour

DetectSpecInit ==
  /\ DetectInit
  /\ SimplifyIdle /\ StlIdle /\ JigIdle /\ ExportIdle
  /\ CalibrationIdle /\ OffsetIdle /\ IouIdle /\ CornersIdle
  /\ MatsIdle /\ PipIdle /\ AreaIdle /\ DedupIdle
  /\ LoaderIdle /\ WizardIdle

SpecDetect == DetectSpecInit /\ [][DetectNext]_vars

----------------------------------------------------------------------------
(* generateSTL, src/lib/stl-export.ts:35-218                                 *)
(*                                                                           *)
(* x and y of a vertex are kept as integers in units of 1 / XYScale mm,      *)
(* where XYScale = 2 * n * pixelsPerMm for a contour of n points: the        *)
(* centred contour point (p - centre) / pixelsPerMm is 2 * (n * p - sum)     *)
(* units and half the jig width is (width + 2 * padding) * n * pixelsPerMm   *)
(* units.  z is in mm.  A unit normal is kept as its direction.              *)

\* Longest hole polygon handed to generateSTL.
MaxHoleLen == 3

\* Pixel points of the hole polygons.
HolePoints == { <<0, 0>>, <<4, 0>>, <<4, 4>>, <<0, 4>> }

HoleInputs == SeqsUpTo(HolePoints, MaxHoleLen)

\* jigSize, padding, thickness and pocket depth (-1: null, a through-cut).
JigSizeInputs == { <<8, 8>>, <<0, 0>> }
StlConfigInputs ==
  { [paddingMm |-> p, thicknessMm |-> 2, pocketDepthMm |-> d] :
      p \in {0, 1}, d \in {-1, 1} }
StlPixelsPerMmInputs == {2}

RECURSIVE SumX(_, _)
SumX(pts, k) == IF k = 0 THEN 0 ELSE SumX(pts, k - 1) + pts[k][1]
RECURSIVE SumY(_, _)
SumY(pts, k) == IF k = 0 THEN 0 ELSE SumY(pts, k - 1) + pts[k][2]

XYScale(n, pixelsPerMm) == 2 * (IF n = 0 THEN 1 ELSE n) * pixelsPerMm

\* contourMm: the contour centred on the mean of its points, in mm.
ContourMm(pts) ==
  LET n == Len(pts)
  IN  [ i \in 1..n |-> << 2 * (n * pts[i][1] - SumX(pts, n)),
                          2 * (n * pts[i][2] - SumY(pts, n)) >> ]

\* outerRect, for jigWidth = jigSize.width + 2 * padding (and height).
OuterRect(jigSize, padding, n, pixelsPerMm) ==
  LET halfW == (jigSize[1] + 2 * padding) * (XYScale(n, pixelsPerMm) \div 2)
      halfH == (jigSize[2] + 2 * padding) * (XYScale(n, pixelsPerMm) \div 2)
  IN  << << -halfW, -halfH >>, << halfW, -halfH >>,
         << halfW, halfH >>, << -halfW, halfH >> >>

At(p, z) == << p[1], p[2], z >>

\* normalize(v): the direction of the unit vector; (0, 0, 1) for length 0.
normalize(v) == IF v = <<0, 0, 0>> THEN <<0, 0, 1>> ELSE v

Tri(a, b, c, n) == [v1 |-> a, v2 |-> b, v3 |-> c, normal |-> n]

\* addQuad
addQuad(v1, v2, v3, v4, normal) ==
  << Tri(v1, v2, v3, normal), Tri(v1, v3, v4, normal) >>

\* earcut is a library outside the repository.  What generateSTL relies on:
\* it returns index triples into the vertices given; it returns none when
\* the outer ring (the vertices before the first hole index, all of them
\* without holes) has fewer than 3 vertices or no area.  Which triangles it
\* returns otherwise is left open: any run of k consecutive index triples.
Strip(nv, k) ==
  [ i \in 1..k |-> << (i - 1) % nv, i % nv, (i + 1) % nv >> ]

EarcutResults(nv, holes, hasArea) ==
  LET outerLen == IF Len(holes) > 0 THEN holes[1] ELSE nv
  IN  IF outerLen < 3 \/ outerLen > nv \/ ~hasArea THEN { <<>> }
      ELSE IF Len(holes) = 0
           THEN { Strip(nv, nv - 2), [ i \in 1..(nv - 2) |-> << 0, i, i + 1 >> ] }
           ELSE { Strip(nv, k) : k \in 1..nv }

\* 1. Bottom face: the triangles at z = 0, normal (0, 0, -1).
BottomFace(rect, indices) ==
  [ t \in 1..Len(indices) |->
      Tri(At(rect[indices[t][1] + 1], 0),
          At(rect[indices[t][2] + 1], 0),
          At(rect[indices[t][3] + 1], 0), <<0, 0, -1>>) ]

\* holeIndices = [contourFlat.length / 2]
TopHoleIndices(contourMm) == << Len(contourMm) >>

\* 2. Top face: vertex i of the combined list is outerRect[i] below
\* outerRect.length, else contourMm[i - outerRect.length]; triangles are
\* pushed as (p0, p2, p1) at z = topZ, normal (0, 0, 1).
Combined(rect, contourMm, i) ==
  IF i < Len(rect) THEN rect[i + 1] ELSE contourMm[i - Len(rect) + 1]

TopFace(rect, contourMm, indices, topZ) ==
  [ t \in 1..Len(indices) |->
      Tri(At(Combined(rect, contourMm, indices[t][1]), topZ),
          At(Combined(rect, contourMm, indices[t][3]), topZ),
          At(Combined(rect, contourMm, indices[t][2]), topZ), <<0, 0, 1>>) ]

\* The edges a wall loop visits: i = 0 .. length - 1 with j = (i + 1) %
\* length (1-based here).
WallEdgesOpen(n) == [ i \in 1..(IF n = 0 THEN 0 ELSE n - 1) |-> << i, i + 1 >> ]
WallEdges(n) == [ i \in 1..n |-> << i, (i % n) + 1 >> ]

RECURSIVE Flatten(_, _)
Flatten(quads, k) ==
  IF k = 0 THEN <<>> ELSE Flatten(quads, k - 1) \o quads[k]

\* 3. Side walls of the outer rectangle, from z = 0 to z = topZ.
OuterWalls(rect, topZ) ==
  LET edges == WallEdges(Len(rect))
      quads == [ e \in 1..Len(edges) |->
                   LET p1 == rect[edges[e][1]]
                       p2 == rect[edges[e][2]]
                       n == normalize(<< p2[2] - p1[2], -(p2[1] - p1[1]), 0 >>)
                   IN  addQuad(At(p1, 0), At(p2, 0), At(p2, topZ), At(p1, topZ), n) ]
  IN  Flatten(quads, Len(quads))

\* 4. Side walls of the contour, from z = pocketZ to z = topZ.
InnerWalls(contourMm, pocketZ, topZ) ==
  LET edges == WallEdges(Len(contourMm))
      quads == [ e \in 1..Len(edges) |->
                   LET p1 == contourMm[edges[e][1]]
                       p2 == contourMm[edges[e][2]]
                       n == normalize(<< -(p2[2] - p1[2]), p2[1] - p1[1], 0 >>)
                   IN  addQuad(At(p1, pocketZ), At(p1, topZ),
                               At(p2, topZ), At(p2, pocketZ), n) ]
  IN  Flatten(quads, Len(quads))

\* The binary STL writer: an 80-byte header, the count at byte 80, then one
\* record per triangle from byte 84 on, each advancing the offset by 50.
HeaderSize == 80
TriangleSize == 50
FirstRecordOffset == 84
RecordStep == 50

bufferSizeNoCount(count) == HeaderSize + count * TriangleSize
bufferSize(count) == HeaderSize + 4 + count * TriangleSize

\* The loop over the triangles: record k is written at the running offset,
\* its two-byte attribute word at offset + 48, and the offset then moves on.
RECURSIVE WriteRecords(_, _)
WriteRecords(tris, k) ==
  IF k = 0 THEN [records |-> <<>>, offset |-> FirstRecordOffset]
  ELSE LET before == WriteRecords(tris, k - 1)
           offset == before.offset
       IN  [records |-> Append(before.records,
                          [offset |-> offset,
                           normal |-> tris[k].normal,
                           v1 |-> tris[k].v1, v2 |-> tris[k].v2,
                           v3 |-> tris[k].v3,
                           recordEnd |-> offset + 48 + 2]),
            offset |-> offset + RecordStep]

\* setUint32 keeps the count modulo 2^32, far above any count reached here.
WriteBuffer(tris) ==
  LET written == WriteRecords(tris, Len(tris))
  IN  [byteLength |-> bufferSize(Len(tris)),
       count |-> Len(tris),
       records |-> written.records,
       endOffset |-> written.offset]

PocketDepth(config) ==
  IF config.pocketDepthMm = -1 THEN config.thicknessMm ELSE config.pocketDepthMm

PocketZ(config) == config.thicknessMm - PocketDepth(config)

----------------------------------------------------------------------------
(* The export specification: generateSTL is called once on a contour, a jig *)
(* size, a configuration and a scale.                                       *)

StlInit ==
  /\ stlContour \in HoleInputs
  /\ stlJigSize \in JigSizeInputs
  /\ stlConfig \in StlConfigInputs
  /\ stlPixelsPerMm \in StlPixelsPerMmInputs
  /\ holeIndices = <<>>
  /\ triangles = <<>>
  /\ sections = NoSections
  /\ stlBuffer = <<>>
  /\ stlDone = FALSE

GenerateSTL ==
  /\ ~stlDone
  /\ LET padding == stlConfig.paddingMm
         thickness == stlConfig.thicknessMm
         n == Len(stlContour)
         contourMm == ContourMm(stlContour)
         outerRect == OuterRect(stlJigSize, padding, n, stlPixelsPerMm)
         rectHasArea == outerRect[1] # outerRect[2] /\ outerRect[2] # outerRect[3]
         holes == TopHoleIndices(contourMm)
         topZ == thickness
         pocketZ == PocketZ(stlConfig)
     IN  \E bottomIndices \in EarcutResults(4, <<>>, rectHasArea),
            topIndices \in EarcutResults(4 + n, holes, rectHasArea) :
           LET bottom == BottomFace(outerRect, bottomIndices)
               top == TopFace(outerRect, contourMm, topIndices, topZ)
               outer == OuterWalls(outerRect, topZ)
               inner == InnerWalls(contourMm, pocketZ, topZ)
               tris == bottom \o top \o outer \o inner
           IN  /\ holeIndices' = holes
               /\ triangles' = tris
               /\ sections' = [bottom |-> Len(bottom), top |-> Len(top),
                               outer |-> Len(outer), inner |-> Len(inner)]
               /\ stlBuffer' = << WriteBuffer(tris) >>
  /\ stlDone' = TRUE
  /\ UNCHANGED <<stlContour, stlJigSize, stlConfig, stlPixelsPerMm>>
  /\ UNCHANGED notStlVars

StlNext == GenerateSTL

StlSpecInit ==
  /\ StlInit
  /\ SimplifyIdle /\ DetectIdle /\ JigIdle /\ ExportIdle
  /\ CalibrationIdle /\ OffsetIdle /\ IouIdle /\ CornersIdle
  /\ MatsIdle /\ PipIdle /\ AreaIdle /\ DedupIdle
  /\ LoaderIdle /\ WizardIdle

SpecSTL == StlSpecInit /\ [][StlNext]_vars

----------------------------------------------------------------------------
(* computeSquareJigSizeMm, src/lib/jig-utils.ts:6-15                         *)
(*                                                                           *)
(* Lengths in mm are kept as exact fractions <<numerator, denominator>> of   *)
(* pixel counts over pixelsPerMm, for pixelsPerMm > 0.                       *)

\* Largest width and height of the bounds tried, pixels.
MaxBoundsPx == 12

BoundsInputs ==
  { <<w, h>> : w \in 0..MaxBoundsPx, h \in 0..MaxBoundsPx } \cup { <<105, 60>> }

PixelsPerMmInputs == {1, 2, 3, 10}

\* The 20 mm added to the larger side, and the 10 mm rounding increment.
PaddingBothSidesMm == 20
IncrementMm == 10

\* a / b
Div(a, b) == << a, b >>

\* Math.max of two fractions over positive denominators.
MathMax(a, b) == IF a[1] * b[2] >= b[1] * a[2] THEN a ELSE b

\* Math.floor and Math.ceil of a fraction over a positive denominator.
MathFloor(f) == f[1] \div f[2]
MathCeil(f) == -((-f[1]) \div f[2])

computeSquareJigSizeMm(contourBounds, pixelsPerMm) ==
  LET widthMm == Div(contourBounds[1], pixelsPerMm)
      heightMm == Div(contourBounds[2], pixelsPerMm)
      maxDim == MathMax(widthMm, heightMm)
      withPadding == << maxDim[1] + PaddingBothSidesMm * maxDim[2], maxDim[2] >>
  IN  MathCeil(<< withPadding[1], withPadding[2] * IncrementMm >>) * IncrementMm

JigInit ==
  /\ jigBounds \in BoundsInputs
  /\ jigPixelsPerMm \in PixelsPerMmInputs
  /\ jigSizeMm = 0
  /\ jigDone = FALSE

ComputeSquareJigSizeMm ==
  /\ ~jigDone
  /\ jigSizeMm' = computeSquareJigSizeMm(jigBounds, jigPixelsPerMm)
  /\ jigDone' = TRUE
  /\ UNCHANGED <<jigBounds, jigPixelsPerMm>>
  /\ UNCHANGED notJigVars

JigNext == ComputeSquareJigSizeMm

JigSpecInit ==
  /\ JigInit
  /\ SimplifyIdle /\ DetectIdle /\ StlIdle /\ ExportIdle
  /\ CalibrationIdle /\ OffsetIdle /\ IouIdle /\ CornersIdle
  /\ MatsIdle /\ PipIdle /\ AreaIdle /\ DedupIdle
  /\ LoaderIdle /\ WizardIdle

SpecJig == JigSpecInit /\ [][JigNext]_vars

----------------------------------------------------------------------------
(* Where the exporters put the cutout: handleContourDetected (page.tsx),    *)
(* handleDownloadSTL / handleDownloadSVG (ExportPanel), generateSTL and     *)
(* generateSVG.  The STL placement is in units of 1 / XYScale mm, the SVG   *)
(* placement in thousandths of a mm (the path is printed with toFixed(3)).  *)

\* Longest contour exported.
MaxExportLen == 3

ExportPoints == { <<x, y>> : x \in {0, 2, 6}, y \in {0, 4} }

ExportContours == { c \in SeqsUpTo(ExportPoints, MaxExportLen) : Len(c) >= 1 }

ExportPixelsPerMm == {1, 2, 3}

ExportPaddings == {0, 10}

\* contourBounds as handleContourDetected computes it: max - min per axis.
ContourBoundsOf(pts) ==
  LET xs == { pts[i][1] : i \in 1..Len(pts) }
      ys == { pts[i][2] : i \in 1..Len(pts) }
  IN  << MaxOf(xs) - MinOf(xs), MaxOf(ys) - MinOf(ys) >>

\* (num / den).toFixed(3), in thousandths: the nearest, a tie away from 0.
ToFixed3(num, den) ==
  LET a == IF num < 0 THEN -num ELSE num
      q == (2000 * a + den) \div (2 * den)
  IN  IF num < 0 THEN -q ELSE q

\* generateSTL: outerRect as <<minX, minY, maxX, maxY>> and contourMm.
StlPlacement(pts, jigSize, padding, pixelsPerMm) ==
  LET rect == OuterRect(jigSize, padding, Len(pts), pixelsPerMm)
  IN  [rect |-> << rect[1][1], rect[1][2], rect[3][1], rect[3][2] >>,
       cutout |-> ContourMm(pts),
       unit |-> XYScale(Len(pts), pixelsPerMm)]

\* generateSVG: the border rectangle x = viewBoxX, width = jigWidth, and the
\* points of the cutout path.
SvgPlacement(pts, jigSize, padding, pixelsPerMm) ==
  LET n == Len(pts)
      jigWidth == jigSize[1] + padding * 2
      jigHeight == jigSize[2] + padding * 2
  IN  [rect |-> << -500 * jigWidth, -500 * jigHeight,
                   -500 * jigWidth + 1000 * jigWidth,
                   -500 * jigHeight + 1000 * jigHeight >>,
       cutout |-> [ i \in 1..n |->
                      << ToFixed3(n * pts[i][1] - SumX(pts, n), n * pixelsPerMm),
                         ToFixed3(n * pts[i][2] - SumY(pts, n), n * pixelsPerMm) >> ],
       unit |-> 1000]

ExportInit ==
  /\ expContour = <<>>
  /\ expBounds = <<>>
  /\ expPixelsPerMm \in ExportPixelsPerMm
  /\ expPaddingMm \in ExportPaddings
  /\ expStl = <<>>
  /\ expSvg = <<>>

HandleContourDetected(detectedContour) ==
  /\ expContour' = detectedContour
  /\ expBounds' = ContourBoundsOf(detectedContour)
  /\ UNCHANGED <<expPixelsPerMm, expPaddingMm, expStl, expSvg>>
  /\ UNCHANGED notExportVars

HandleDownloadSTL ==
  /\ expContour # <<>>
  /\ expBounds # <<>>
  /\ expStl' = << StlPlacement(expContour, expBounds, expPaddingMm,
                               expPixelsPerMm) >>
  /\ UNCHANGED <<expContour, expBounds, expPixelsPerMm, expPaddingMm, expSvg>>
  /\ UNCHANGED notExportVars

HandleDownloadSVG ==
  /\ expContour # <<>>
  /\ expBounds # <<>>
  /\ expSvg' = << SvgPlacement(expContour, expBounds, expPaddingMm,
                               expPixelsPerMm) >>
  /\ UNCHANGED <<expContour, expBounds, expPixelsPerMm, expPaddingMm, expStl>>
  /\ UNCHANGED notExportVars

ExportNext ==
  \/ \E c \in ExportContours : expContour = <<>> /\ HandleContourDetected(c)
  \/ HandleDownloadSTL
  \/ HandleDownloadSVG

ExportSpecInit ==
  /\ ExportInit
  /\ SimplifyIdle /\ DetectIdle /\ StlIdle /\ JigIdle
  /\ CalibrationIdle /\ OffsetIdle /\ IouIdle /\ CornersIdle
  /\ MatsIdle /\ PipIdle /\ AreaIdle /\ DedupIdle
  /\ LoaderIdle /\ WizardIdle

SpecExport == ExportSpecInit /\ [][ExportNext]_vars

----------------------------------------------------------------------------
(* Scale calibration: the ScaleCalibration component and the two            *)
(* calculatePixelsPerMm functions.  A ratio is an exact fraction            *)
(* <<numerator, denominator>> in lowest terms; a zero denominator stands    *)
(* for the non-finite results of a division by 0 (Infinity, or NaN for      *)
(* 0 / 0).                                                                  *)

RECURSIVE Gcd(_, _)
Gcd(a, b) == IF b = 0 THEN a ELSE Gcd(b, a % b)

Ratio(num, den) ==
  IF den = 0 THEN << (IF num = 0 THEN 0 ELSE 1), 0 >>
  ELSE LET g == Gcd(num, den) IN << num \div g, den \div g >>

\* (a + b) / 2 for two finite ratios.
Average(a, b) == Ratio(a[1] * b[2] + b[1] * a[2], 2 * a[2] * b[2])

IsFiniteRatio(r) == r[2] # 0

\* What the user can type in a number field, and parseFloat of it.
FieldTexts == { "", "abc", "0", "5", "10", "100" }

parseFloat(text) ==
  CASE text = "0" -> [nan |-> FALSE, value |-> 0]
    [] text = "5" -> [nan |-> FALSE, value |-> 5]
    [] text = "10" -> [nan |-> FALSE, value |-> 10]
    [] text = "100" -> [nan |-> FALSE, value |-> 100]
    [] OTHER -> [nan |-> TRUE, value |-> 0]

\* parseFloat(e.target.value) || 0
OrZero(parsed) == IF parsed.nan \/ parsed.value = 0 THEN 0 ELSE parsed.value

\* Paper sizes in tenths of a mm: letter 215.9 x 279.4, A4 210 x 297.
PAPER_SIZES(paperSize) ==
  IF paperSize = "letter" THEN [width |-> 2159, height |-> 2794]
  ELSE [width |-> 2100, height |-> 2970]

TenthsPerMm == 10

Larger(a, b) == IF a >= b THEN a ELSE b
Smaller(a, b) == IF a <= b THEN a ELSE b

\* calculatePixelsPerMm(paper, paperSize), src/unnamed/part_004.
calculatePixelsPerMm(paper, paperSize) ==
  LET size == PAPER_SIZES(paperSize)
      paperLong == Larger(size.width, size.height)
      paperShort == Smaller(size.width, size.height)
      detectedLong == Larger(paper[1], paper[2])
      detectedShort == Smaller(paper[1], paper[2])
      pxPerMmLong == Ratio(detectedLong * TenthsPerMm, paperLong)
      pxPerMmShort == Ratio(detectedShort * TenthsPerMm, paperShort)
  IN  Average(pxPerMmLong, pxPerMmShort)

\* calculatePixelsPerMm(paper), src/lib/paper-detect.ts, the one the
\* component imports.
A4_WIDTH_MM == 210
A4_HEIGHT_MM == 297

calculatePixelsPerMmA4(paper) ==
  LET widthPxPerMm == Ratio(paper[1], A4_HEIGHT_MM)
      heightPxPerMm == Ratio(paper[2], A4_WIDTH_MM)
  IN  Average(widthPxPerMm, heightPxPerMm)

\* Detected quads: <<width, height>> in pixels.
QuadSides == { 210, 297, 2159, 2794 }
QuadInputs == { <<w, h>> : w \in QuadSides, h \in QuadSides }
PaperSizeInputs == { "letter", "a4" }

Swapped(paper) == << paper[2], paper[1] >>

\* The effect on [a4Paper, useManual]: the automatic calibration.
AutoReport(a4Paper, useManual, reported) ==
  IF a4Paper # <<>> /\ ~useManual
  THEN << [pixelsPerMm |-> calculatePixelsPerMmA4(a4Paper),
           method |-> "auto", referenceLengthMm |-> -1] >>
  ELSE reported

\* The effect on [useManual, manualReference]: the manual calibration.
ManualReport(useManual, reference, reported) ==
  IF useManual
  THEN << [pixelsPerMm |-> Ratio(reference.lengthPx, reference.lengthMm),
           method |-> "manual", referenceLengthMm |-> reference.lengthMm] >>
  ELSE reported

CalibrationInit ==
  /\ calA4Paper \in QuadInputs \cup { <<>> }
  /\ calUseManual = (calA4Paper = <<>>)
  /\ calReference = [lengthPx |-> 100, lengthMm |-> 10]
  /\ calMounted = FALSE
  /\ calReported = <<>>
  /\ calScales = <<>>

\* First render: both effects run, in the order they are declared.
MountEffects ==
  /\ ~calMounted
  /\ calMounted' = TRUE
  /\ calReported' = ManualReport(calUseManual, calReference,
                       AutoReport(calA4Paper, calUseManual, calReported))
  /\ UNCHANGED <<calA4Paper, calUseManual, calReference, calScales>>
  /\ UNCHANGED notCalibrationVars

\* A click on one of the two options; both effects depend on useManual.
SetUseManual(value) ==
  /\ calMounted
  /\ value = FALSE => calA4Paper # <<>>
  /\ value # calUseManual
  /\ calUseManual' = value
  /\ calReported' = ManualReport(value, calReference,
                       AutoReport(calA4Paper, value, calReported))
  /\ UNCHANGED <<calA4Paper, calReference, calMounted, calScales>>
  /\ UNCHANGED notCalibrationVars

\* Typing in "Length in pixels" / "Length in mm"; the manual effect follows.
ChangeLengthPx(text) ==
  /\ calMounted
  /\ calUseManual
  /\ LET reference == [calReference EXCEPT !.lengthPx = OrZero(parseFloat(text))]
     IN  /\ calReference' = reference
         /\ calReported' = ManualReport(calUseManual, reference, calReported)
  /\ UNCHANGED <<calA4Paper, calUseManual, calMounted, calScales>>
  /\ UNCHANGED notCalibrationVars

ChangeLengthMm(text) ==
  /\ calMounted
  /\ calUseManual
  /\ LET reference == [calReference EXCEPT !.lengthMm = OrZero(parseFloat(text))]
     IN  /\ calReference' = reference
         /\ calReported' = ManualReport(calUseManual, reference, calReported)
  /\ UNCHANGED <<calA4Paper, calUseManual, calMounted, calScales>>
  /\ UNCHANGED notCalibrationVars

\* Both calculatePixelsPerMm functions applied to the detected quad and to
\* the quad with its width and height fields swapped.
CalculatePixelsPerMm(paperSize) ==
  /\ calA4Paper # <<>>
  /\ calScales = <<>>
  /\ calScales' =
       << [paperSize |-> paperSize,
           sized |-> calculatePixelsPerMm(calA4Paper, paperSize),
           sizedSwapped |-> calculatePixelsPerMm(Swapped(calA4Paper), paperSize),
           a4 |-> calculatePixelsPerMmA4(calA4Paper),
           a4Swapped |-> calculatePixelsPerMmA4(Swapped(calA4Paper))] >>
  /\ UNCHANGED <<calA4Paper, calUseManual, calReference, calMounted, calReported>>
  /\ UNCHANGED notCalibrationVars

CalibrationNext ==
  \/ MountEffects
  \/ \E value \in BOOLEAN : SetUseManual(value)
  \/ \E text \in FieldTexts : ChangeLengthPx(text)
  \/ \E text \in FieldTexts : ChangeLengthMm(text)
  \/ \E paperSize \in PaperSizeInputs : CalculatePixelsPerMm(paperSize)

CalibrationSpecInit ==
  /\ CalibrationInit
  /\ SimplifyIdle /\ DetectIdle /\ StlIdle /\ JigIdle
  /\ ExportIdle /\ OffsetIdle /\ IouIdle /\ CornersIdle
  /\ MatsIdle /\ PipIdle /\ AreaIdle /\ DedupIdle
  /\ LoaderIdle /\ WizardIdle

SpecCalibration == CalibrationSpecInit /\ [][CalibrationNext]_vars

----------------------------------------------------------------------------
(* offsetContour, src/lib/contour.ts:405-437                                 *)
(*                                                                           *)
(* Coordinates are integers in half pixels, so that a dragged vertex can     *)
(* sit between pixels.  The polygons tried have edges of integer length      *)
(* (axis-parallel, or the 3-4-5 triangle's hypotenuse), so the two edge      *)
(* normals are exact fractions; the averaged normal's length is a square     *)
(* root, and Math.round of a coordinate moved by it is decided exactly by    *)
(* comparing squares.                                                        *)

\* Longest polygon offset, and largest offset distance in pixels.
MaxOffsetLen == 4
MaxOffsetPx == 2

OffsetPoints == { <<0, 0>>, <<8, 0>>, <<8, 6>>, <<0, 6>>, <<3, 0>>, <<8, 3>> }

Abs(x) == IF x < 0 THEN -x ELSE x

\* Math.sqrt(dx * dx + dy * dy) || 1 for an edge of integer length.
HasIntegerLength(dx, dy) ==
  dx = 0 \/ dy = 0 \/ {Abs(dx), Abs(dy)} \in { {6, 8}, {3, 4} }

EdgeLength(dx, dy) ==
  IF dx = 0 /\ dy = 0 THEN 1
  ELSE IF dx = 0 THEN Abs(dy)
  ELSE IF dy = 0 THEN Abs(dx)
  ELSE IF {Abs(dx), Abs(dy)} = {6, 8} THEN 10 ELSE 5

Prev(pts, i) == pts[IF i = 1 THEN Len(pts) ELSE i - 1]
Following(pts, i) == pts[IF i = Len(pts) THEN 1 ELSE i + 1]

OffsetInputs ==
  { p \in SeqsUpTo(OffsetPoints, MaxOffsetLen) :
      /\ Len(p) >= 2
      /\ \A i \in 1..Len(p) :
           HasIntegerLength(p[i][1] - Prev(p, i)[1], p[i][2] - Prev(p, i)[2]) }

OffsetDistances == (-MaxOffsetPx)..MaxOffsetPx

\* (nx1 + nx2, ny1 + ny2) over the common denominator len1 * len2, as the
\* integer pair above that denominator.
IncomingNormal(prev, curr, next) ==
  LET dx1 == curr[1] - prev[1]
      dy1 == curr[2] - prev[2]
  IN  << -dy1, dx1 >>

AveragedNormal(prev, curr, next) ==
  LET dx1 == curr[1] - prev[1]
      dy1 == curr[2] - prev[2]
      len1 == EdgeLength(dx1, dy1)
      dx2 == next[1] - curr[1]
      dy2 == next[2] - curr[2]
      len2 == EdgeLength(dx2, dy2)
  IN  << (-dy1) * len2 + (-dy2) * len1, dx1 * len2 + dx2 * len1 >>

\* m <= sign * sqrt(num / den), for den > 0 and sign in {-1, 0, 1}.
LeqSurd(m, sign, num, den) ==
  IF sign = 0 THEN m <= 0
  ELSE IF sign > 0 THEN m <= 0 \/ m * m * den <= num
  ELSE m < 0 /\ m * m * den >= num

\* Math.round(c + component * offsetPx / normalLen), in half pixels, for the
\* coordinate c and the component s of the averaged normal <<sx, sy>>:
\* the integer k with k - 1/2 <= value < k + 1/2.
RoundMoved(c, s, normal, offsetPx) ==
  LET squared == normal[1] * normal[1] + normal[2] * normal[2]
      sign == IF s * offsetPx > 0 THEN 1 ELSE IF s * offsetPx < 0 THEN -1 ELSE 0
      num == 4 * offsetPx * offsetPx * s * s
      den == IF squared = 0 THEN 1 ELSE squared
      low == (c \div 2) - Abs(offsetPx) - 1
      high == (c \div 2) + Abs(offsetPx) + 2
      k == CHOOSE j \in low..high :
             /\ LeqSurd(2 * j - c - 1, sign, num, den)
             /\ ~LeqSurd(2 * j + 1 - c, sign, num, den)
  IN  2 * k

Displace(pts, offsetPx) ==
  [ i \in 1..Len(pts) |->
      LET normal == AveragedNormal(Prev(pts, i), pts[i], Following(pts, i))
      IN  << RoundMoved(pts[i][1], normal[1], normal, offsetPx),
             RoundMoved(pts[i][2], normal[2], normal, offsetPx) >> ]

offsetContourUnguarded(pts, offsetPx) == Displace(pts, offsetPx)

offsetContour(pts, offsetPx) ==
  IF Len(pts) < 3 \/ offsetPx = 0 THEN pts ELSE Displace(pts, offsetPx)

OffsetInit ==
  /\ offPoints \in OffsetInputs
  /\ offOffsetPx \in OffsetDistances
  /\ offResult = <<>>
  /\ offDone = FALSE

OffsetContour ==
  /\ ~offDone
  /\ offResult' = offsetContour(offPoints, offOffsetPx)
  /\ offDone' = TRUE
  /\ UNCHANGED <<offPoints, offOffsetPx>>
  /\ UNCHANGED notOffsetVars

OffsetNext == OffsetContour

OffsetSpecInit ==
  /\ OffsetInit
  /\ SimplifyIdle /\ DetectIdle /\ StlIdle /\ JigIdle
  /\ ExportIdle /\ CalibrationIdle /\ IouIdle /\ CornersIdle
  /\ MatsIdle /\ PipIdle /\ AreaIdle /\ DedupIdle
  /\ LoaderIdle /\ WizardIdle

SpecOffset == OffsetSpecInit /\ [][OffsetNext]_vars

----------------------------------------------------------------------------
(* calculateBoundingBoxIoU applied to pairs of polygons, among them          *)
(* polygons whose points lie on one axis-parallel line.                      *)

IouPoints ==
  << <<0, 0>>, <<2, 0>>, <<4, 0>>, <<0, 2>>, <<2, 2>>, <<4, 2>>,
     <<0, 4>>, <<2, 4>>, <<4, 4>> >>

IouPolygons ==
  { << IouPoints[t[1]], IouPoints[t[2]], IouPoints[t[3]] >> :
      t \in { u \in (1..9) \X (1..9) \X (1..9) : u[1] < u[2] /\ u[2] < u[3] } }

IouInit ==
  /\ iouA \in IouPolygons
  /\ iouB \in IouPolygons
  /\ iouAB = <<>>
  /\ iouAA = <<>>

CalculateBoundingBoxIoU ==
  /\ iouAB = <<>>
  /\ iouAB' = << calculateBoundingBoxIoU(iouA, iouB) >>
  /\ iouAA' = << calculateBoundingBoxIoU(iouA, iouA) >>
  /\ UNCHANGED <<iouA, iouB>>
  /\ UNCHANGED notIouVars

IouNext == CalculateBoundingBoxIoU

IouSpecInit ==
  /\ IouInit
  /\ SimplifyIdle /\ DetectIdle /\ StlIdle /\ JigIdle
  /\ ExportIdle /\ CalibrationIdle /\ OffsetIdle /\ CornersIdle
  /\ MatsIdle /\ PipIdle /\ AreaIdle /\ DedupIdle
  /\ LoaderIdle /\ WizardIdle

SpecIou == IouSpecInit /\ [][IouNext]_vars

----------------------------------------------------------------------------
(* sortCorners, src/lib/contour.ts:482-492                                   *)
(*                                                                           *)
(* Array.prototype.sort is stable, and sorts by the comparator when the      *)
(* comparator is consistent on the elements; when it is not, the order of    *)
(* the result is implementation-defined: any permutation of the input.       *)

RowTolerance == 10

CornerPoints ==
  << <<0, 0>>, <<50, 0>>, <<100, 0>>, <<0, 8>>, <<50, 8>>, <<100, 8>>,
     <<0, 16>>, <<50, 16>>, <<100, 16>> >>

Collinear(p, q, r) ==
  (q[1] - p[1]) * (r[2] - p[2]) = (q[2] - p[2]) * (r[1] - p[1])

\* Four corners, no three of them on a line.
Quadrilaterals ==
  { q \in { << CornerPoints[t[1]], CornerPoints[t[2]], CornerPoints[t[3]],
               CornerPoints[t[4]] >> :
              t \in { u \in (1..9) \X (1..9) \X (1..9) \X (1..9) :
                        u[1] < u[2] /\ u[2] < u[3] /\ u[3] < u[4] } } :
      \A i \in 1..4 : \A j \in (i + 1)..4 : \A k \in (j + 1)..4 :
        ~Collinear(q[i], q[j], q[k]) }

Orders(n) == { f \in [1..n -> 1..n] : \A i \in 1..n : \E j \in 1..n : f[j] = i }

Reorderings(s) == { [ i \in 1..Len(s) |-> s[f[i]] ] : f \in Orders(Len(s)) }

\* The comparators: "row": by row first when the rows are more than 10
\* apart, else by x; "x": by x alone.
Compare(cmp, a, b) ==
  IF cmp = "row" /\ Abs(a[2] - b[2]) > RowTolerance THEN a[2] - b[2]
  ELSE a[1] - b[1]

\* Where the stable insertion of e into the sorted s puts it: after every
\* element that does not compare greater than e.
RECURSIVE InsertStable(_, _, _)
InsertStable(s, e, cmp) ==
  IF s = <<>> THEN << e >>
  ELSE IF Compare(cmp, s[Len(s)], e) <= 0 THEN Append(s, e)
  ELSE Append(InsertStable(SubSeq(s, 1, Len(s) - 1), e, cmp), s[Len(s)])

RECURSIVE StableSort(_, _, _)
StableSort(s, k, cmp) ==
  IF k = 0 THEN <<>> ELSE InsertStable(StableSort(s, k - 1, cmp), s[k], cmp)

Sign(x) == IF x < 0 THEN -1 ELSE IF x > 0 THEN 1 ELSE 0

\* A consistent comparator on the elements of s: it orders them as a strict
\* weak order.
IsConsistent(s, cmp) ==
  \A i, j, k \in 1..Len(s) :
    LET ij == Compare(cmp, s[i], s[j])
        jk == Compare(cmp, s[j], s[k])
        ik == Compare(cmp, s[i], s[k])
    IN  /\ Sign(ij) = -Sign(Compare(cmp, s[j], s[i]))
        /\ (ij < 0 /\ jk < 0) => ik < 0
        /\ (ij = 0 /\ jk = 0) => ik = 0
        /\ (ij = 0 /\ jk < 0) => ik < 0
        /\ (ij < 0 /\ jk = 0) => ik < 0

\* The results [...s].sort(cmp) can have.
SortResults(s, cmp) ==
  IF IsConsistent(s, cmp) THEN { StableSort(s, Len(s), cmp) }
  ELSE Reorderings(s)

\* sortCorners, given the result of its first sort.
sortCornersFrom(sorted) ==
  LET top == StableSort(SubSeq(sorted, 1, 2), 2, "x")
      bottom == StableSort(SubSeq(sorted, 3, Len(sorted)), Len(sorted) - 2, "x")
  IN  << top[1], top[2], bottom[2], bottom[1] >>

sortCornersResults(corners) ==
  { sortCornersFrom(sorted) : sorted \in SortResults(corners, "row") }

CornersInit ==
  /\ cornersA \in Quadrilaterals
  /\ cornersB \in Reorderings(cornersA)
  /\ sortedA = <<>>
  /\ sortedB = <<>>

SortCorners ==
  /\ sortedA = <<>>
  /\ sortedA' \in sortCornersResults(cornersA)
  /\ sortedB' \in sortCornersResults(cornersB)
  /\ UNCHANGED <<cornersA, cornersB>>
  /\ UNCHANGED notCornersVars

CornersNext == SortCorners

CornersSpecInit ==
  /\ CornersInit
  /\ SimplifyIdle /\ DetectIdle /\ StlIdle /\ JigIdle
  /\ ExportIdle /\ CalibrationIdle /\ OffsetIdle /\ IouIdle
  /\ MatsIdle /\ PipIdle /\ AreaIdle /\ DedupIdle
  /\ LoaderIdle /\ WizardIdle

SpecCorners == CornersSpecInit /\ [][CornersNext]_vars

----------------------------------------------------------------------------
(* The Mats and MatVectors of one detectAllContours call.  Every OpenCV     *)
(* operation (imread, cvtColor, the filters, findContours, contourArea,     *)
(* arcLength / approxPolyDP) either succeeds or throws.                     *)

\* Most top-level contours of one pass that pass the area filter.
MaxMatContours == 2

Passes == 1..3

\* src and gray; per pass the filtered image (blurred / bilateral), the
\* edges or threshold image, the MatVector and the hierarchy; per visited
\* contour the Mat smoothContour allocates.
MatHandles ==
  { <<"src", 0, 0>>, <<"gray", 0, 0>> }
    \cup { <<name, p, 0>> : name \in {"filtered", "edges", "contours", "hierarchy"},
                            p \in Passes }
    \cup { <<"smooth", p, i>> : p \in Passes, i \in 1..(MaxMatContours + 1) }

\* new cv.Mat(), new cv.MatVector(), cv.imread.
Allocate(mats, h) == [mats EXCEPT ![h] = "live"]

\* mat.delete() for one handle.
DeleteMat(state) ==
  IF state = "none" THEN "none"
  ELSE IF state = "live" THEN "deleted" ELSE "twice"

\* safeDelete(...mats): delete() on each argument that is a Mat.
safeDelete(mats, hs) ==
  [ h \in DOMAIN mats |-> IF h \in hs THEN DeleteMat(mats[h]) ELSE mats[h] ]

MatsInit ==
  /\ matPc = "imread"
  /\ matPass = 0
  /\ matLeft = 0
  /\ matMats = [ h \in MatHandles |-> "none" ]
  /\ matThrown = FALSE
  /\ matOutcome = "running"

\* src = cv.imread(canvas)
Imread(ok) ==
  /\ matPc = "imread"
  /\ IF ok
     THEN /\ matMats' = Allocate(matMats, <<"src", 0, 0>>)
          /\ matPc' = "gray"
          /\ UNCHANGED matThrown
     ELSE /\ matThrown' = TRUE
          /\ matPc' = "finally"
          /\ UNCHANGED matMats
  /\ UNCHANGED <<matPass, matLeft, matOutcome>>
  /\ UNCHANGED notMatsVars

\* gray = new cv.Mat(); cv.cvtColor(src, gray, ...)
CvtColor(ok) ==
  /\ matPc = "gray"
  /\ matMats' = Allocate(matMats, <<"gray", 0, 0>>)
  /\ IF ok
     THEN /\ matPc' = "filter"
          /\ matPass' = 1
          /\ UNCHANGED matThrown
     ELSE /\ matThrown' = TRUE
          /\ matPc' = "finally"
          /\ UNCHANGED matPass
  /\ UNCHANGED <<matLeft, matOutcome>>
  /\ UNCHANGED notMatsVars

\* const blurred = new cv.Mat(); cv.GaussianBlur(...) (bilateralFilter in
\* pass 2)
Filter(ok) ==
  /\ matPc = "filter"
  /\ matMats' = Allocate(matMats, <<"filtered", matPass, 0>>)
  /\ IF ok
     THEN matPc' = "edges" /\ UNCHANGED matThrown
     ELSE matThrown' = TRUE /\ matPc' = "passFinally"
  /\ UNCHANGED <<matPass, matLeft, matOutcome>>
  /\ UNCHANGED notMatsVars

\* cannyEdges = new cv.Mat(); cv.Canny(...) (adaptiveThreshold, threshold)
Edges(ok) ==
  /\ matPc = "edges"
  /\ matMats' = Allocate(matMats, <<"edges", matPass, 0>>)
  /\ IF ok
     THEN matPc' = "find" /\ UNCHANGED matThrown
     ELSE matThrown' = TRUE /\ matPc' = "passFinally"
  /\ UNCHANGED <<matPass, matLeft, matOutcome>>
  /\ UNCHANGED notMatsVars

\* the MatVector, the hierarchy and cv.findContours, which finds n contours
\* to visit
FindContours(ok, n) ==
  /\ matPc = "find"
  /\ matMats' = Allocate(Allocate(matMats, <<"contours", matPass, 0>>),
                         <<"hierarchy", matPass, 0>>)
  /\ IF ok
     THEN matPc' = "loop" /\ matLeft' = n /\ UNCHANGED matThrown
     ELSE matThrown' = TRUE /\ matPc' = "passFinally" /\ UNCHANGED matLeft
  /\ UNCHANGED <<matPass, matOutcome>>
  /\ UNCHANGED notMatsVars

\* One turn of the loop: contourArea, then smoothContour allocates a Mat and
\* runs arcLength and approxPolyDP, the points are read and the Mat is
\* handed to safeDelete.
VisitContour(areaOk, smoothOk) ==
  /\ matPc = "loop"
  /\ matLeft > 0
  /\ LET h == <<"smooth", matPass, matLeft>>
     IN  IF ~areaOk
         THEN matThrown' = TRUE /\ matPc' = "passFinally" /\ UNCHANGED matMats
         ELSE IF ~smoothOk
         THEN /\ matMats' = Allocate(matMats, h)
              /\ matThrown' = TRUE
              /\ matPc' = "passFinally"
         ELSE /\ matMats' = safeDelete(Allocate(matMats, h), {h})
              /\ UNCHANGED <<matThrown, matPc>>
  /\ matLeft' = matLeft - 1
  /\ UNCHANGED <<matPass, matOutcome>>
  /\ UNCHANGED notMatsVars

\* After the loop: safeDelete(blurred) (bilateral in pass 2)
EndOfLoop ==
  /\ matPc = "loop"
  /\ matLeft = 0
  /\ matMats' = safeDelete(matMats, { <<"filtered", matPass, 0>> })
  /\ matPc' = "passFinally"
  /\ UNCHANGED <<matPass, matLeft, matThrown, matOutcome>>
  /\ UNCHANGED notMatsVars

\* finally { safeDelete(edges, contours, hierarchy) } of the pass
PassFinally ==
  /\ matPc = "passFinally"
  /\ matMats' = safeDelete(matMats, { <<"edges", matPass, 0>>,
                                      <<"contours", matPass, 0>>,
                                      <<"hierarchy", matPass, 0>> })
  /\ IF matThrown THEN matPc' = "finally" /\ UNCHANGED matPass
     ELSE IF matPass < 3 THEN matPc' = "filter" /\ matPass' = matPass + 1
     ELSE matPc' = "finally" /\ UNCHANGED matPass
  /\ UNCHANGED <<matLeft, matThrown, matOutcome>>
  /\ UNCHANGED notMatsVars

\* The rest is plain arrays; then finally { safeDelete(src, gray) } and the
\* call returns, or rethrows from the catch.
Finally ==
  /\ matPc = "finally"
  /\ matMats' = safeDelete(matMats, { <<"src", 0, 0>>, <<"gray", 0, 0>> })
  /\ matPc' = "done"
  /\ matOutcome' = IF matThrown THEN "threw" ELSE "returned"
  /\ UNCHANGED <<matPass, matLeft, matThrown>>
  /\ UNCHANGED notMatsVars

MatsNext ==
  \/ \E ok \in BOOLEAN : Imread(ok)
  \/ \E ok \in BOOLEAN : CvtColor(ok)
  \/ \E ok \in BOOLEAN : Filter(ok)
  \/ \E ok \in BOOLEAN : Edges(ok)
  \/ \E ok \in BOOLEAN, n \in 0..MaxMatContours : FindContours(ok, n)
  \/ \E areaOk, smoothOk \in BOOLEAN : VisitContour(areaOk, smoothOk)
  \/ EndOfLoop
  \/ PassFinally
  \/ Finally

MatsSpecInit ==
  /\ MatsInit
  /\ SimplifyIdle /\ DetectIdle /\ StlIdle /\ JigIdle
  /\ ExportIdle /\ CalibrationIdle /\ OffsetIdle /\ IouIdle
  /\ CornersIdle /\ PipIdle /\ AreaIdle /\ DedupIdle
  /\ LoaderIdle /\ WizardIdle

SpecMats == MatsSpecInit /\ [][MatsNext]_vars

----------------------------------------------------------------------------
(* pointInPolygon, src/lib/contour.ts:37-48, on simple polygons whose        *)
(* vertices lie on a grid of pitch 10 and points between the grid columns,   *)
(* among them points level with a vertex.                                    *)

\* Most vertices of a polygon.
MaxPipLen == 4

PipVertices ==
  { <<0, 0>>, <<10, 0>>, <<20, 0>>, <<0, 10>>, <<10, 10>>, <<10, 20>>,
    <<20, 20>> }
PipPoints == {-5, 5, 15, 25} \X {-5, 0, 5, 10, 15, 20, 25}

\* (a - o) x (b - o)
Cross(o, a, b) ==
  (a[1] - o[1]) * (b[2] - o[2]) - (a[2] - o[2]) * (b[1] - o[1])

OnSegment(p, a, b) ==
  /\ Cross(a, b, p) = 0
  /\ MinOf({a[1], b[1]}) <= p[1] /\ p[1] <= MaxOf({a[1], b[1]})
  /\ MinOf({a[2], b[2]}) <= p[2] /\ p[2] <= MaxOf({a[2], b[2]})

\* The open segments cross in one point.
CrossProperly(a, b, c, d) ==
  /\ Cross(a, b, c) * Cross(a, b, d) < 0
  /\ Cross(c, d, a) * Cross(c, d, b) < 0

\* Two edges meet only in an endpoint they share.
MeetOnlyAtSharedEnd(a, b, c, d) ==
  /\ ~CrossProperly(a, b, c, d)
  /\ \A p \in {c, d} \ {a, b} : ~OnSegment(p, a, b)
  /\ \A p \in {a, b} \ {c, d} : ~OnSegment(p, c, d)

EdgeOf(polygon, i) == << polygon[i], polygon[(i % Len(polygon)) + 1] >>

IsSimple(polygon) ==
  \A i, j \in 1..Len(polygon) :
    i < j => MeetOnlyAtSharedEnd(EdgeOf(polygon, i)[1], EdgeOf(polygon, i)[2],
                                 EdgeOf(polygon, j)[1], EdgeOf(polygon, j)[2])

PipPolygons ==
  { s \in UNION { DistinctSeqs(PipVertices, n) : n \in 3..MaxPipLen } :
      IsSimple(s) }

\* The vertex list started r places later.
Rotate(polygon, r) ==
  [ i \in 1..Len(polygon) |-> polygon[((i - 1 + r) % Len(polygon)) + 1] ]

\* j of the loop header: polygon.length - 1 at first, then the previous i.
BeforeNoWrap(i, n) == IF i = 1 THEN 1 ELSE i - 1
Before(i, n) == IF i = 1 THEN n ELSE i - 1

\* (yi > point.y) !== (yj > point.y) &&
\* point.x < (xj - xi) * (point.y - yi) / (yj - yi) + xi, the division exact
Toggles(point, pi, pj) ==
  /\ (pi[2] > point[2]) # (pj[2] > point[2])
  /\ IF pj[2] > pi[2]
     THEN (point[1] - pi[1]) * (pj[2] - pi[2])
            < (pj[1] - pi[1]) * (point[2] - pi[2])
     ELSE (point[1] - pi[1]) * (pj[2] - pi[2])
            > (pj[1] - pi[1]) * (point[2] - pi[2])

\* inside after the first k turns of the loop
RECURSIVE InsideAfter(_, _, _)
InsideAfter(point, polygon, k) ==
  IF k = 0 THEN FALSE
  ELSE LET before == InsideAfter(point, polygon, k - 1)
       IN  IF Toggles(point, polygon[k], polygon[Before(k, Len(polygon))])
           THEN ~before
           ELSE before

pointInPolygon(point, polygon) == InsideAfter(point, polygon, Len(polygon))

PipInit ==
  /\ pipPolygon \in PipPolygons
  /\ pipPoint \in PipPoints
  /\ pipResults = <<>>
  /\ pipDone = FALSE

\* pointInPolygon called with the vertex list started at each index in turn.
PointInPolygon ==
  /\ ~pipDone
  /\ pipResults' = [ r \in 1..Len(pipPolygon) |->
                       pointInPolygon(pipPoint, Rotate(pipPolygon, r - 1)) ]
  /\ pipDone' = TRUE
  /\ UNCHANGED <<pipPolygon, pipPoint>>
  /\ UNCHANGED notPipVars

PipNext == PointInPolygon

PipSpecInit ==
  /\ PipInit
  /\ SimplifyIdle /\ DetectIdle /\ StlIdle /\ JigIdle
  /\ ExportIdle /\ CalibrationIdle /\ OffsetIdle /\ IouIdle
  /\ CornersIdle /\ MatsIdle /\ AreaIdle /\ DedupIdle
  /\ LoaderIdle /\ WizardIdle

SpecPip == PipSpecInit /\ [][PipNext]_vars

----------------------------------------------------------------------------
(* calculatePolygonArea, src/lib/contour-detect.ts:248-261, and the copy of  *)
(* its loop in the offset effect of ContourDetector.tsx:254-260.  Areas are  *)
(* kept in half square pixels, so that the division by 2 is exact.           *)

\* Most points of a polygon.
MaxAreaLen == 4

AreaPoints == {0, 1, 3} \X {0, 2}
AreaInputs == UNION { DistinctSeqs(AreaPoints, n) : n \in 0..MaxAreaLen }
AreaVectors == { <<0, 0>>, <<5, -3>>, <<-4, 7>> }

\* area after the first k turns of the loop
RECURSIVE ShoelaceSum(_, _)
ShoelaceSum(pts, k) ==
  IF k = 0 THEN 0
  ELSE LET i == k
           j == (k % Len(pts)) + 1
       IN  ShoelaceSum(pts, k - 1) + pts[i][1] * pts[j][2]
                                   - pts[j][1] * pts[i][2]

calculatePolygonAreaSigned(pts) ==
  IF Len(pts) < 3 THEN 0 ELSE ShoelaceSum(pts, Len(pts))

\* Math.abs(area) / 2, in half square pixels
calculatePolygonArea(pts) ==
  IF Len(pts) < 3 THEN 0 ELSE Abs(ShoelaceSum(pts, Len(pts)))

Reversed(pts) == [ i \in 1..Len(pts) |-> pts[Len(pts) + 1 - i] ]
Translated(pts, v) ==
  [ i \in 1..Len(pts) |-> << pts[i][1] + v[1], pts[i][2] + v[2] >> ]

AreaInit ==
  /\ areaPoints \in AreaInputs
  /\ areaVector \in AreaVectors
  /\ areaOf = <<>>
  /\ areaReported = <<>>

\* calculatePolygonArea called on the polygon, on the polygon with its
\* points in reverse order and on the polygon moved by the vector.
CalculatePolygonArea ==
  /\ areaOf = <<>>
  /\ areaOf' = << [plain |-> calculatePolygonArea(areaPoints),
                   reversed |-> calculatePolygonArea(Reversed(areaPoints)),
                   translated |->
                     calculatePolygonArea(Translated(areaPoints, areaVector))] >>
  /\ UNCHANGED <<areaPoints, areaVector, areaReported>>
  /\ UNCHANGED notAreaVars

\* The offset effect with an offset of 0: it reports the area of the points
\* being edited when there are at least 3 of them.
OffsetEffect ==
  /\ areaReported = <<>>
  /\ Len(areaPoints) >= 3
  /\ areaReported' = << Abs(ShoelaceSum(areaPoints, Len(areaPoints))) >>
  /\ UNCHANGED <<areaPoints, areaVector, areaOf>>
  /\ UNCHANGED notAreaVars

AreaNext ==
  \/ CalculatePolygonArea
  \/ OffsetEffect

AreaSpecInit ==
  /\ AreaInit
  /\ SimplifyIdle /\ DetectIdle /\ StlIdle /\ JigIdle
  /\ ExportIdle /\ CalibrationIdle /\ OffsetIdle /\ IouIdle
  /\ CornersIdle /\ MatsIdle /\ PipIdle /\ DedupIdle
  /\ LoaderIdle /\ WizardIdle

SpecArea == AreaSpecInit /\ [][AreaNext]_vars

----------------------------------------------------------------------------
(* The deduplication loop of detectAllContours, src/lib/contour.ts:244-264,  *)
(* one candidate a step.  B6 has the bounding box of B4 and 6 vertices, so   *)
(* that C6 is over the threshold with two entries of different length.       *)

\* Most candidates before deduplication.
MaxDedupLen == 3

B6 == << <<2, 0>>, <<4, 0>>, <<6, 0>>, <<6, 2>>, <<4, 2>>, <<2, 2>> >>

DedupPolygons == {A4, A5, B4, B6, C6}

\* The i-th candidate pushed: areas and methods differ from one candidate to
\* the next, so that a replacement shows in each field.
CandidateOf(polygon, i) ==
  [contour |-> polygon, area |-> 10 + i, method |-> MethodOf(i)]

DedupInputs ==
  { [ i \in 1..Len(s) |-> CandidateOf(s[i], i) ] :
      s \in SeqsUpTo(DedupPolygons, MaxDedupLen) }

DedupInit ==
  /\ dedupAll \in DedupInputs
  /\ dedupIndex = 0
  /\ dedupUnique = <<>>
  /\ dedupLast = "none"

\* isDuplicate stays false: the candidate is pushed.
PushCandidate ==
  /\ dedupIndex < Len(dedupAll)
  /\ LET candidate == dedupAll[dedupIndex + 1]
     IN  /\ FirstDuplicate(dedupUnique, candidate) = 0
         /\ dedupUnique' = Append(dedupUnique, candidate)
  /\ dedupIndex' = dedupIndex + 1
  /\ dedupLast' = "pushed"
  /\ UNCHANGED dedupAll
  /\ UNCHANGED notDedupVars

\* The first entry over the threshold has fewer vertices: its contour, area
\* and method become the candidate's, and the inner loop breaks.
ReplaceExisting ==
  /\ dedupIndex < Len(dedupAll)
  /\ LET candidate == dedupAll[dedupIndex + 1]
         k == FirstDuplicate(dedupUnique, candidate)
     IN  /\ k # 0
         /\ Replaces(candidate, dedupUnique[k])
         /\ dedupUnique' = [dedupUnique EXCEPT ![k] = candidate]
  /\ dedupIndex' = dedupIndex + 1
  /\ dedupLast' = "replaced"
  /\ UNCHANGED dedupAll
  /\ UNCHANGED notDedupVars

\* The first entry over the threshold has as many vertices or more: the
\* inner loop breaks and nothing is pushed.
DiscardCandidate ==
  /\ dedupIndex < Len(dedupAll)
  /\ LET candidate == dedupAll[dedupIndex + 1]
         k == FirstDuplicate(dedupUnique, candidate)
     IN  /\ k # 0
         /\ ~Replaces(candidate, dedupUnique[k])
  /\ dedupIndex' = dedupIndex + 1
  /\ dedupLast' = "discarded"
  /\ UNCHANGED <<dedupAll, dedupUnique>>
  /\ UNCHANGED notDedupVars

DedupNext ==
  \/ PushCandidate
  \/ ReplaceExisting
  \/ DiscardCandidate

DedupSpecInit ==
  /\ DedupInit
  /\ SimplifyIdle /\ DetectIdle /\ StlIdle /\ JigIdle
  /\ ExportIdle /\ CalibrationIdle /\ OffsetIdle /\ IouIdle
  /\ CornersIdle /\ MatsIdle /\ PipIdle /\ AreaIdle
  /\ LoaderIdle /\ WizardIdle

SpecDedup == DedupSpecInit /\ [][DedupNext]_vars

----------------------------------------------------------------------------
(* loadOpenCV and getCv, src/unnamed/part_006:17-90.  The page runs one      *)
(* handler at a time: a call of loadOpenCV, the script's onload or onerror,  *)
(* a poll timer, a call of getCv; the OpenCV runtime becomes ready at some   *)
(* moment after its script was appended, or was ready before the first call. *)

\* Most calls of loadOpenCV.
MaxCalls == 3

\* Polls that may find OpenCV not ready before the load is given up (600 in
\* the source, line 67).
MaxAttempts == 1

\* if (loadPromise) return loadPromise
HasLoadPromiseNever == FALSE
HasLoadPromise == loadPromise # 0

\* A script element is waiting for onload or onerror, or is being polled.
LoadInFlight == \E s \in 1..Len(scripts) : scripts[s].phase # "done"

Received(promise, during) == [promise |-> promise, duringLoad |-> during]

LoaderInit ==
  /\ cvInstance = FALSE
  /\ loadPromise = 0
  /\ promises = <<>>
  /\ windowCv \in BOOLEAN
  /\ scripts = <<>>
  /\ calls = <<>>
  /\ getCvLog = {}

\* if (cvInstance) return Promise.resolve(): a new promise, resolved.
LoadOpenCVLoaded ==
  /\ Len(calls) < MaxCalls
  /\ cvInstance
  /\ promises' = Append(promises, "resolved")
  /\ calls' = Append(calls, Received(Len(promises) + 1, LoadInFlight))
  /\ UNCHANGED <<cvInstance, loadPromise, windowCv, scripts, getCvLog>>
  /\ UNCHANGED notLoaderVars

\* if (loadPromise) return loadPromise: pending, or rejected for good.
LoadOpenCVAgain ==
  /\ Len(calls) < MaxCalls
  /\ ~cvInstance
  /\ HasLoadPromise
  /\ calls' = Append(calls, Received(loadPromise, LoadInFlight))
  /\ UNCHANGED <<cvInstance, loadPromise, promises, windowCv, scripts,
                 getCvLog>>
  /\ UNCHANGED notLoaderVars

\* The executor finds window.cv.Mat: cvInstance is set and the new promise
\* resolved, no script is appended.
LoadOpenCVFromCache ==
  /\ Len(calls) < MaxCalls
  /\ ~cvInstance
  /\ ~HasLoadPromise
  /\ windowCv
  /\ cvInstance' = TRUE
  /\ promises' = Append(promises, "resolved")
  /\ loadPromise' = Len(promises) + 1
  /\ calls' = Append(calls, Received(Len(promises) + 1, LoadInFlight))
  /\ UNCHANGED <<windowCv, scripts, getCvLog>>
  /\ UNCHANGED notLoaderVars

\* The executor appends the script element; the new promise is pending.
LoadOpenCVAppendScript ==
  /\ Len(calls) < MaxCalls
  /\ ~cvInstance
  /\ ~HasLoadPromise
  /\ ~windowCv
  /\ promises' = Append(promises, "pending")
  /\ loadPromise' = Len(promises) + 1
  /\ scripts' = Append(scripts, [promise |-> Len(promises) + 1,
                                 phase |-> "loading", attempts |-> 0])
  /\ calls' = Append(calls, Received(Len(promises) + 1, TRUE))
  /\ UNCHANGED <<cvInstance, windowCv, getCvLog>>
  /\ UNCHANGED notLoaderVars

\* resolve() and reject() of a promise that is settled already do nothing.
Settle(all, p, outcome) ==
  IF all[p] = "pending" THEN [all EXCEPT ![p] = outcome] ELSE all

\* The runtime of an appended script finishes initialising.
RuntimeInitialized ==
  /\ ~windowCv
  /\ \E s \in 1..Len(scripts) : scripts[s].phase \in {"loading", "polling"}
  /\ windowCv' = TRUE
  /\ UNCHANGED <<cvInstance, loadPromise, promises, scripts, calls, getCvLog>>
  /\ UNCHANGED notLoaderVars

\* script.onload with OpenCV ready at once.
OnloadReady(s) ==
  /\ scripts[s].phase = "loading"
  /\ windowCv
  /\ cvInstance' = TRUE
  /\ promises' = Settle(promises, scripts[s].promise, "resolved")
  /\ scripts' = [scripts EXCEPT ![s].phase = "done"]
  /\ UNCHANGED <<loadPromise, windowCv, calls, getCvLog>>
  /\ UNCHANGED notLoaderVars

\* script.onload with OpenCV not ready: the first poll() runs in the same
\* handler, counts one attempt and sets the timer.
OnloadPoll(s) ==
  /\ scripts[s].phase = "loading"
  /\ ~windowCv
  /\ scripts' = [scripts EXCEPT ![s].phase = "polling", ![s].attempts = 1]
  /\ UNCHANGED <<cvInstance, loadPromise, promises, windowCv, calls, getCvLog>>
  /\ UNCHANGED notLoaderVars

\* script.onerror
Onerror(s) ==
  /\ scripts[s].phase = "loading"
  /\ promises' = Settle(promises, scripts[s].promise, "rejected")
  /\ scripts' = [scripts EXCEPT ![s].phase = "done"]
  /\ UNCHANGED <<cvInstance, loadPromise, windowCv, calls, getCvLog>>
  /\ UNCHANGED notLoaderVars

\* poll() from the timer finds OpenCV ready.
PollReady(s) ==
  /\ scripts[s].phase = "polling"
  /\ windowCv
  /\ cvInstance' = TRUE
  /\ promises' = Settle(promises, scripts[s].promise, "resolved")
  /\ scripts' = [scripts EXCEPT ![s].phase = "done"]
  /\ UNCHANGED <<loadPromise, windowCv, calls, getCvLog>>
  /\ UNCHANGED notLoaderVars

\* poll() from the timer: attempts++ > 600 rejects, else the timer is set
\* again.
PollAgain(s) ==
  /\ scripts[s].phase = "polling"
  /\ ~windowCv
  /\ scripts[s].attempts <= MaxAttempts
  /\ scripts' = [scripts EXCEPT ![s].attempts = @ + 1]
  /\ UNCHANGED <<cvInstance, loadPromise, promises, windowCv, calls, getCvLog>>
  /\ UNCHANGED notLoaderVars

PollGiveUp(s) ==
  /\ scripts[s].phase = "polling"
  /\ ~windowCv
  /\ scripts[s].attempts > MaxAttempts
  /\ promises' = Settle(promises, scripts[s].promise, "rejected")
  /\ scripts' = [scripts EXCEPT ![s].phase = "done", ![s].attempts = @ + 1]
  /\ UNCHANGED <<cvInstance, loadPromise, windowCv, calls, getCvLog>>
  /\ UNCHANGED notLoaderVars

\* getCv(): throws when cvInstance is not set.  The log keeps whether a
\* promise handed out by loadOpenCV had resolved by then.
GetCv ==
  /\ getCvLog' = getCvLog \cup
       { [threw |-> ~cvInstance,
          afterResolve |-> \E c \in 1..Len(calls) :
                             promises[calls[c].promise] = "resolved"] }
  /\ UNCHANGED <<cvInstance, loadPromise, promises, windowCv, scripts, calls>>
  /\ UNCHANGED notLoaderVars

LoaderNext ==
  \/ LoadOpenCVLoaded
  \/ LoadOpenCVAgain
  \/ LoadOpenCVFromCache
  \/ LoadOpenCVAppendScript
  \/ RuntimeInitialized
  \/ \E s \in 1..Len(scripts) : OnloadReady(s)
  \/ \E s \in 1..Len(scripts) : OnloadPoll(s)
  \/ \E s \in 1..Len(scripts) : Onerror(s)
  \/ \E s \in 1..Len(scripts) : PollReady(s)
  \/ \E s \in 1..Len(scripts) : PollAgain(s)
  \/ \E s \in 1..Len(scripts) : PollGiveUp(s)
  \/ GetCv

LoaderSpecInit ==
  /\ LoaderInit
  /\ SimplifyIdle /\ DetectIdle /\ StlIdle /\ JigIdle
  /\ ExportIdle /\ CalibrationIdle /\ OffsetIdle /\ IouIdle
  /\ CornersIdle /\ MatsIdle /\ PipIdle /\ AreaIdle
  /\ DedupIdle /\ WizardIdle

SpecLoader == LoaderSpecInit /\ [][LoaderNext]_vars

----------------------------------------------------------------------------
(* The wizard of src/app/page.tsx: the state of Home, the handlers of the    *)
(* controls each step renders and the callbacks of the components it mounts. *)
(* The effects a component runs when it mounts are part of the action that   *)
(* mounts it.                                                                *)

\* Most images uploaded.
MaxUploads == 2

canProceedToStep3 == wizContour # 0 /\ wizContourBounds # 0
canProceedToStep4 == scaleCalibration # "null" /\ jigConfig

\* What each step renders (page.tsx:139, 165, 189, 214).
Step2Rendered == currentStep = 2 /\ imageUrl # 0
Step3Rendered == currentStep = 3 /\ wizContour # 0 /\ wizContourBounds # 0
Step4Rendered ==
  /\ currentStep = 4
  /\ wizContour # 0 /\ wizContourBounds # 0
  /\ scaleCalibration # "null" /\ jigConfig

WizardInit == WizardIdle

\* ImageUpload shows the drop zone while there is no image.
HandleImageUpload ==
  /\ currentStep = 1
  /\ imageUrl = 0
  /\ uploads < MaxUploads
  /\ uploads' = uploads + 1
  /\ imageUrl' = uploads + 1
  /\ currentStep' = 2
  /\ UNCHANGED <<wizContour, wizContourBounds, wizA4Paper, scaleCalibration,
                 jigConfig, previewTab, wizUseManual>>
  /\ UNCHANGED notWizardVars

\* The retake buttons of ImageUpload at step 1 and Start Over at step 4.
HandleRetake ==
  /\ \/ currentStep = 1 /\ imageUrl # 0
     \/ Step4Rendered
  /\ imageUrl' = 0
  /\ wizContour' = 0
  /\ wizA4Paper' = FALSE
  /\ currentStep' = 1
  /\ UNCHANGED <<wizContourBounds, scaleCalibration, jigConfig, previewTab,
                 wizUseManual, uploads>>
  /\ UNCHANGED notWizardVars

\* ContourDetector reports a contour of the image it shows.
WizardContourDetected ==
  /\ Step2Rendered
  /\ wizContour' = imageUrl
  /\ wizContourBounds' = imageUrl
  /\ UNCHANGED <<currentStep, imageUrl, wizA4Paper, scaleCalibration,
                 jigConfig, previewTab, wizUseManual, uploads>>
  /\ UNCHANGED notWizardVars

\* ContourDetector reports the paper it found, or null.
HandleA4Detected(paper) ==
  /\ Step2Rendered
  /\ wizA4Paper' = paper
  /\ UNCHANGED <<currentStep, imageUrl, wizContour, wizContourBounds,
                 scaleCalibration, jigConfig, previewTab, wizUseManual,
                 uploads>>
  /\ UNCHANGED notWizardVars

\* setCurrentStep(3) from another step mounts ScaleCalibration: useManual
\* starts as !a4Paper and the mount effects report a calibration and the
\* default configuration.
GoToStep3 ==
  /\ currentStep' = 3
  /\ IF currentStep # 3
     THEN /\ wizUseManual' = ~wizA4Paper
          /\ scaleCalibration' = IF wizA4Paper THEN "auto" ELSE "manual"
          /\ jigConfig' = TRUE
     ELSE UNCHANGED <<wizUseManual, scaleCalibration, jigConfig>>
  /\ UNCHANGED <<imageUrl, wizContour, wizContourBounds, wizA4Paper,
                 previewTab, uploads>>
  /\ UNCHANGED notWizardVars

GoToStep(num) ==
  /\ currentStep' = num
  /\ UNCHANGED <<imageUrl, wizContour, wizContourBounds, wizA4Paper,
                 scaleCalibration, jigConfig, previewTab, wizUseManual,
                 uploads>>
  /\ UNCHANGED notWizardVars

\* The buttons of the step indicator.
ClickStep1 == GoToStep(1)
ClickStep2 == imageUrl # 0 /\ GoToStep(2)
ClickStep3 == canProceedToStep3 /\ GoToStep3
ClickStep4 == canProceedToStep4 /\ GoToStep(4)

\* "Continue to Configuration" of step 2.
ContinueToConfiguration ==
  /\ Step2Rendered
  /\ canProceedToStep3
  /\ GoToStep3

\* "Preview & Export" of step 3.
PreviewAndExport ==
  /\ Step3Rendered
  /\ canProceedToStep4
  /\ GoToStep(4)

\* The calibration mode switch of ScaleCalibration and the effects that
\* follow it: the manual effect reports when useManual, the auto effect when
\* there is a paper.
WizardSetUseManual(value) ==
  /\ Step3Rendered
  /\ wizUseManual' = value
  /\ scaleCalibration' = IF value THEN "manual"
                         ELSE IF wizA4Paper THEN "auto"
                         ELSE scaleCalibration
  /\ UNCHANGED <<currentStep, imageUrl, wizContour, wizContourBounds,
                 wizA4Paper, jigConfig, previewTab, uploads>>
  /\ UNCHANGED notWizardVars

SetPreviewTab(tab) ==
  /\ Step4Rendered
  /\ previewTab' = tab
  /\ UNCHANGED <<currentStep, imageUrl, wizContour, wizContourBounds,
                 wizA4Paper, scaleCalibration, jigConfig, wizUseManual,
                 uploads>>
  /\ UNCHANGED notWizardVars

WizardNext ==
  \/ HandleImageUpload
  \/ HandleRetake
  \/ WizardContourDetected
  \/ \E paper \in BOOLEAN : HandleA4Detected(paper)
  \/ ClickStep1
  \/ ClickStep2
  \/ ClickStep3
  \/ ClickStep4
  \/ ContinueToConfiguration
  \/ PreviewAndExport
  \/ \E value \in BOOLEAN : WizardSetUseManual(value)
  \/ \E tab \in {"2d", "3d"} : SetPreviewTab(tab)

WizardSpecInit ==
  /\ WizardInit
  /\ SimplifyIdle /\ DetectIdle /\ StlIdle /\ JigIdle
  /\ ExportIdle /\ CalibrationIdle /\ OffsetIdle /\ IouIdle
  /\ CornersIdle /\ MatsIdle /\ PipIdle /\ AreaIdle
  /\ DedupIdle /\ LoaderIdle

SpecWizard == WizardSpecInit /\ [][WizardNext]_vars

----------------------------------------------------------------------------
(* The simplifier's specification: a polygon is given, simplifyContour is    *)
(* called on it with any tolerance (the simplify slider re-simplifies the    *)
(* raw polygon at every change), and may be called again on its own result.  *)

SimplifyInit ==
  /\ points \in PolygonInputs
  /\ tolerance = 0
  /\ simplified = simplifyContour(points, 0)
  /\ again = <<>>
  /\ againDone = FALSE

\* simplifyContour(raw, tolerance) on the raw polygon.
SimplifyContour(e) ==
  /\ tolerance' = e
  /\ simplified' = simplifyContour(points, e)
  /\ again' = <<>>
  /\ againDone' = FALSE
  /\ UNCHANGED points
  /\ UNCHANGED notSimplifyVars

\* simplifyContour applied to its own result, same tolerance.
SimplifyAgain ==
  /\ ~againDone
  /\ again' = simplifyContour(simplified, tolerance)
  /\ againDone' = TRUE
  /\ UNCHANGED <<points, tolerance, simplified>>
  /\ UNCHANGED notSimplifyVars

SimplifyNext ==
  \/ \E e \in Tolerances : SimplifyContour(e)
  \/ SimplifyAgain

SimplifySpecInit ==
  /\ SimplifyInit
  /\ DetectIdle /\ StlIdle /\ JigIdle /\ ExportIdle
  /\ CalibrationIdle /\ OffsetIdle /\ IouIdle /\ CornersIdle
  /\ MatsIdle /\ PipIdle /\ AreaIdle /\ DedupIdle
  /\ LoaderIdle /\ WizardIdle

SpecSimplify == SimplifySpecInit /\ [][SimplifyNext]_vars

----------------------------------------------------------------------------
(* Claims on the simplifier *)

\* The RDP pass at the current tolerance left at least 3 vertices, so the
\* result is the pass's and not the original polygon.
NoFallback == Len(points) <= 3 \/ Len(rdpPass(points, tolerance)) >= 3

\* C1 as stated: for a polygon of at least 3 vertices and tolerances
\* e1 <= e2, simplifyContour(P, e2) has no more vertices than
\* simplifyContour(P, e1).
C1_CountNonIncreasing ==
  Len(points) >= 3 =>
    \A e1 \in 0..tolerance :
      Len(simplified) <= Len(simplifyContour(points, e1))

\* C1 amended: the vertex count is non-increasing in the tolerance as long
\* as the RDP pass at the larger tolerance leaves at least 3 vertices (the
\* result is then not the fallback to the original polygon).
C1_CountNonIncreasingUnlessFallback ==
  (Len(points) >= 3 /\ NoFallback) =>
    \A e1 \in 0..tolerance :
      Len(simplified) <= Len(simplifyContour(points, e1))

\* A larger tolerance removed vertices that a smaller one kept, with no
\* fallback.
C1_Witness ==
  /\ Len(points) > 3
  /\ NoFallback
  /\ \E e1 \in 0..tolerance :
       /\ e1 > 0
       /\ Len(simplified) < Len(simplifyContour(points, e1))
       /\ Len(simplifyContour(points, e1)) < Len(points)

\* C2: simplifyContour is idempotent: applied to its own result with the
\* same tolerance it returns that result, vertex for vertex.
C2_Idempotent == againDone => again = simplified

\* The second pass ran RDP on a polygon the first pass had shortened.
C2_Witness ==
  /\ againDone
  /\ Len(simplified) < Len(points)
  /\ Len(simplified) > 3
  /\ again = simplified

\* C3: the result never has fewer than 3 vertices for an input of at least
\* 3; an input of 3 or fewer points is returned unchanged; and when the RDP
\* pass leaves fewer than 3 points the original polygon is returned.
C3_NeverDegenerate ==
  /\ Len(points) >= 3 => Len(simplified) >= 3
  /\ Len(points) <= 3 => simplified = points
  /\ (Len(points) > 3 /\ Len(rdpPass(points, tolerance)) < 3)
       => simplified = points

\* The RDP pass collapsed a polygon of more than 3 vertices below 3 and the
\* original came back.
C3_Witness ==
  /\ Len(points) > 3
  /\ Len(rdpPass(points, tolerance)) < 3
  /\ simplified = points

----------------------------------------------------------------------------
(* Claims on detection *)

\* The candidates the deduplication starts from.
Candidates == AllContours(traced, imageScale)

\* A surviving entry that carries the polygon, area and method of candidate e.
Carries(c, e) ==
  /\ c.points = e.contour
  /\ c.area = e.area
  /\ c.detectionMethod = e.method

Overlap(x, y) == IsDuplicateIoU(calculateBoundingBoxIoU(x.contour, y.contour))

\* Two candidates over the threshold that differ only in vertex count: same
\* bounding box, same area, another number of vertices.
NearIdentical(x, y) ==
  /\ Overlap(x, y)
  /\ getBounds(x.contour) = getBounds(y.contour)
  /\ x.area = y.area
  /\ Len(x.contour) # Len(y.contour)

\* Exactly one entry of the result carries candidate i or j, and it carries
\* the one with more vertices.
LongerAloneSurvives(i, j) ==
  LET x == Candidates[i]
      y == Candidates[j]
      longer == IF Len(x.contour) > Len(y.contour) THEN x ELSE y
      kept == { k \in 1..Len(contours) :
                  Carries(contours[k], x) \/ Carries(contours[k], y) }
  IN  /\ Cardinality(kept) = 1
      /\ \A k \in kept : Carries(contours[k], longer)

NoOtherOverlaps(i, j) ==
  \A k \in 1..Len(Candidates) :
    k \notin {i, j} =>
      /\ ~Overlap(Candidates[k], Candidates[i])
      /\ ~Overlap(Candidates[k], Candidates[j])

\* C4 as stated: of two candidates with bounding-box IoU above the threshold
\* that differ only in vertex count, exactly one survives deduplication, with
\* the polygon, area and method of the one with more vertices, in either
\* order of discovery.
C4_LongerSurvives ==
  detectDone =>
    \A i, j \in 1..Len(Candidates) :
      (i < j /\ NearIdentical(Candidates[i], Candidates[j]))
        => LongerAloneSurvives(i, j)

\* C4 amended: the same, provided no third candidate has bounding-box IoU
\* above the threshold with either of the two.
C4_LongerSurvivesWhenAlone ==
  detectDone =>
    \A i, j \in 1..Len(Candidates) :
      (i < j /\ NearIdentical(Candidates[i], Candidates[j])
             /\ NoOtherOverlaps(i, j))
        => LongerAloneSurvives(i, j)

\* The later of two near-identical candidates has more vertices and replaced
\* the earlier one, next to a third candidate that overlaps neither.
C4_Witness ==
  /\ detectDone
  /\ \E i, j \in 1..Len(Candidates) :
       /\ i < j
       /\ NearIdentical(Candidates[i], Candidates[j])
       /\ NoOtherOverlaps(i, j)
       /\ Len(Candidates[j].contour) > Len(Candidates[i].contour)
       /\ Len(Candidates) >= 3
       /\ Len(contours) = 2

\* C5: auto-selection picks the first candidate that is not paper; when
\* every candidate is paper it picks the largest (the first of the ranked
\* list); only an empty list yields no selection.  Stated of the component
\* (selectedIndex) and of detectContour (legacyResult).
C5_AutoSelection ==
  /\ detectDone =>
       selectedIndex =
         IF FirstObjectIndex(contours) # -1 THEN FirstObjectIndex(contours)
         ELSE IF Len(contours) > 0 THEN 0
         ELSE -1
  /\ legacyDone =>
       LET cs == detectAllContours(traced, imageScale)
           pick == IF FirstObjectIndex(cs) # -1 THEN FirstObjectIndex(cs) + 1
                   ELSE 1
       IN  IF Len(cs) = 0 THEN legacyResult = <<>>
           ELSE legacyResult = << [points |-> cs[pick].points,
                                   area |-> cs[pick].area] >>

----------------------------------------------------------------------------
(* Claims about generateSTL.                                                 *)

TriVerts(t) == { t.v1, t.v2, t.v3 }

\* How many of the triangles have the edge between a and b.
EdgeUses(tris, a, b) ==
  Cardinality({ k \in 1..Len(tris) : {a, b} \subseteq TriVerts(tris[k]) })

\* C6: a hole polygon of fewer than 3 points, or a face whose triangulation
\* has no triangle, is rejected: generateSTL returns no buffer for it.
C6_DegenerateRejected ==
  (stlDone /\ (Len(stlContour) < 3 \/ sections.bottom = 0 \/ sections.top = 0))
    => stlBuffer = <<>>

\* C7: the solid is watertight; in particular each hole-wall edge at the
\* lower end of the cavity, z = thickness - pocketDepth, is shared by
\* exactly two of the emitted triangles.
C7_LowerCavityEdgesClosed ==
  (stlDone /\ Len(stlContour) >= 3 /\ sections.bottom > 0 /\ sections.top > 0) =>
    LET cm == ContourMm(stlContour)
        edges == WallEdges(Len(cm))
    IN  \A e \in 1..Len(edges) :
          LET a == At(cm[edges[e][1]], PocketZ(stlConfig))
              b == At(cm[edges[e][2]], PocketZ(stlConfig))
          IN  a # b => EdgeUses(triangles, a, b) = 2

\* C8: the buffer is 84 + 50 * T bytes long for T emitted triangles, the
\* count at byte 80 is T, and exactly T records of 50 bytes follow it, the
\* last one ending at the end of the buffer.
C8_BufferLength ==
  stlDone =>
    /\ Len(stlBuffer) = 1
    /\ LET b == stlBuffer[1]
           T == Len(triangles)
       IN  /\ b.byteLength = 84 + 50 * T
           /\ b.count = T
           /\ Len(b.records) = b.count
           /\ \A k \in 1..T :
                /\ b.records[k].offset = 84 + 50 * (k - 1)
                /\ b.records[k].recordEnd = b.records[k].offset + 50
                /\ b.records[k].recordEnd <= b.byteLength
                /\ b.records[k].v1 = triangles[k].v1
           /\ b.endOffset = b.byteLength

C8_Witness ==
  /\ stlDone
  /\ Len(stlContour) = 3
  /\ Len(triangles) > 14
  /\ Len(stlBuffer) = 1
  /\ stlBuffer[1].count = Len(triangles)

\* C9: 8 outer side-wall triangles and 2 * n inner side-wall triangles are
\* emitted, two for each boundary edge, the edge from the last vertex back
\* to the first included.
InnerWallTriangles ==
  SubSeq(triangles, sections.bottom + sections.top + sections.outer + 1,
         Len(triangles))

C9_SideWallCounts ==
  stlDone =>
    LET n == Len(stlContour)
        cm == ContourMm(stlContour)
        inner == InnerWallTriangles
    IN  /\ sections.outer = 8
        /\ sections.inner = 2 * n
        /\ Len(inner) = 2 * n
        /\ \A i \in 1..n :
             LET j == IF i = n THEN 1 ELSE i + 1
                 top == stlConfig.thicknessMm
             IN  /\ {At(cm[i], top), At(cm[j], top)} \subseteq TriVerts(inner[2 * i - 1])
                 /\ {At(cm[i], PocketZ(stlConfig)), At(cm[j], PocketZ(stlConfig))}
                      \subseteq TriVerts(inner[2 * i])

C9_Witness ==
  /\ stlDone
  /\ Len(stlContour) = 3
  /\ stlContour[1] # stlContour[3]
  /\ sections.outer = 8
  /\ sections.inner = 6

----------------------------------------------------------------------------
(* Claims about computeSquareJigSizeMm.                                      *)

LargerSidePx == IF jigBounds[1] >= jigBounds[2] THEN jigBounds[1] ELSE jigBounds[2]

\* C10: the side returned is the smallest multiple of 10 that is at least
\* max(width, height) / pixelsPerMm + 20; bounds of 105 x 60 pixels at 10
\* pixels per mm give 40.
C10_SmallestMultipleOfTen ==
  jigDone =>
    /\ jigSizeMm % 10 = 0
    /\ jigSizeMm * jigPixelsPerMm >= LargerSidePx + 20 * jigPixelsPerMm
    /\ (jigSizeMm - 10) * jigPixelsPerMm < LargerSidePx + 20 * jigPixelsPerMm
    /\ (jigBounds = <<105, 60>> /\ jigPixelsPerMm = 10) => jigSizeMm = 40

C10_Witness ==
  /\ jigDone
  /\ jigBounds = <<105, 60>>
  /\ jigPixelsPerMm = 10
  /\ jigSizeMm = 40

----------------------------------------------------------------------------
(* Claims about the exported placement.                                      *)

\* Every cutout vertex is at least the padding away from each side of the
\* rectangle, inside it.
InsideWithPadding(placement, padding) ==
  \A i \in 1..Len(placement.cutout) :
    LET v == placement.cutout[i]
        m == padding * placement.unit
    IN  /\ placement.rect[1] + m <= v[1]
        /\ v[1] <= placement.rect[3] - m
        /\ placement.rect[2] + m <= v[2]
        /\ v[2] <= placement.rect[4] - m

\* C11: in the STL and in the SVG every vertex of the cutout, recentred and
\* in mm, lies inside the outer rectangle with at least the configured
\* padding to each of its four sides.
C11_CutoutInsideWithPadding ==
  /\ expStl # <<>> => InsideWithPadding(expStl[1], expPaddingMm)
  /\ expSvg # <<>> => InsideWithPadding(expSvg[1], expPaddingMm)

----------------------------------------------------------------------------
(* Claims about scale calibration.                                           *)

\* C12: a manual reference of length 0 mm is never reported to the parent:
\* no manual ScaleCalibration carries referenceLengthMm = 0 or a non-finite
\* pixelsPerMm.
C12_ZeroLengthRejected ==
  (calReported # <<>> /\ calReported[1].method = "manual") =>
    /\ calReported[1].referenceLengthMm # 0
    /\ IsFiniteRatio(calReported[1].pixelsPerMm)

\* C13: calculatePixelsPerMm gives the same result when the quad's width
\* and height are swapped, and gives exactly 10 for a 2159 x 2794 quad on a
\* 215.9 x 279.4 mm sheet.
C13_OrientationIndependent ==
  calScales # <<>> =>
    /\ calScales[1].sized = calScales[1].sizedSwapped
    /\ calScales[1].a4 = calScales[1].a4Swapped
    /\ (calA4Paper \in { <<2159, 2794>>, <<2794, 2159>> }) =>
         /\ calScales[1].paperSize = "letter" => calScales[1].sized = <<10, 1>>
         /\ calScales[1].a4 = <<10, 1>>

----------------------------------------------------------------------------
(* Claims about offsetContour.                                               *)

\* C14: offsetContour(P, 0) is P: the same points in the same order, none
\* recomputed or rounded.
C14_ZeroOffsetIdentity ==
  (offDone /\ offOffsetPx = 0) => offResult = offPoints

HasHalfPixel(pts) == \E i \in 1..Len(pts) : pts[i][1] % 2 = 1 \/ pts[i][2] % 2 = 1

C14_Witness ==
  /\ offDone
  /\ offOffsetPx = 0
  /\ Len(offPoints) >= 3
  /\ HasHalfPixel(offPoints)
  /\ offResult = offPoints

\* The cross product of the edges into and out of vertex i.
TurnAt(pts, i) ==
  LET prev == Prev(pts, i)
      curr == pts[i]
      next == Following(pts, i)
  IN  (curr[1] - prev[1]) * (next[2] - curr[2])
        - (curr[2] - prev[2]) * (next[1] - curr[1])

\* Strictly convex, in either winding direction.
IsConvex(pts) ==
  /\ Len(pts) >= 3
  /\ \/ \A i \in 1..Len(pts) : TurnAt(pts, i) > 0
     \/ \A i \in 1..Len(pts) : TurnAt(pts, i) < 0

OnPixels(pts) == ~HasHalfPixel(pts)

\* The bounding box of a contains the bounding box of b.
BoxContains(a, b) ==
  LET xa == { a[i][1] : i \in 1..Len(a) }
      ya == { a[i][2] : i \in 1..Len(a) }
      xb == { b[i][1] : i \in 1..Len(b) }
      yb == { b[i][2] : i \in 1..Len(b) }
  IN  /\ MinOf(xa) <= MinOf(xb) /\ MaxOf(xa) >= MaxOf(xb)
      /\ MinOf(ya) <= MinOf(yb) /\ MaxOf(ya) >= MaxOf(yb)

\* C15: for a convex polygon, in either winding direction, a positive
\* distance grows it (the result's bounding box contains the input's) and a
\* negative distance shrinks it.
C15_PositiveGrows ==
  (offDone /\ IsConvex(offPoints) /\ OnPixels(offPoints)) =>
    /\ offOffsetPx > 0 => BoxContains(offResult, offPoints)
    /\ offOffsetPx < 0 => BoxContains(offPoints, offResult)

\* The two edge normals at vertex i cancel: both edges have length 0, or
\* they point in opposite directions.
NormalsCancel(pts, i) ==
  LET prev == Prev(pts, i)
      curr == pts[i]
      next == Following(pts, i)
      dx1 == curr[1] - prev[1]
      dy1 == curr[2] - prev[2]
      dx2 == next[1] - curr[1]
      dy2 == next[2] - curr[2]
  IN  \/ dx1 = 0 /\ dy1 = 0 /\ dx2 = 0 /\ dy2 = 0
      \/ /\ dx1 * dy2 - dy1 * dx2 = 0
         /\ dx1 * dx2 + dy1 * dy2 < 0

\* Math.round of a coordinate in half pixels.
RoundHalfPixel(c) == 2 * ((c + 1) \div 2)

----------------------------------------------------------------------------
(* Claims about calculateBoundingBoxIoU.                                     *)

\* C17: the IoU of a polygon with itself is 1, also when its bounding box
\* has no width or no height.
C17_SelfIoUIsOne ==
  iouAA # <<>> => (iouAA[1][2] # 0 /\ iouAA[1][1] = iouAA[1][2])

\* The interiors of the two bounding boxes share no point.
BoxesApart(a, b) ==
  \/ a.maxX <= b.minX \/ b.maxX <= a.minX
  \/ a.maxY <= b.minY \/ b.maxY <= a.minY

\* C18: the IoU of two polygons is a number from 0 to 1, and it is 0 when
\* their bounding boxes do not overlap, touching boxes included.
C18_IoUInUnitRange ==
  iouAB # <<>> =>
    /\ iouAB[1][2] > 0
    /\ 0 <= iouAB[1][1]
    /\ iouAB[1][1] <= iouAB[1][2]
    /\ BoxesApart(getBounds(iouA), getBounds(iouB)) => iouAB[1][1] = 0

C18_Witness ==
  /\ iouAB # <<>>
  /\ iouAB[1] = <<0, 1>>
  /\ getBounds(iouA).maxX = getBounds(iouB).minX
  /\ getBounds(iouA).maxY > getBounds(iouB).minY
  /\ getBounds(iouB).maxY > getBounds(iouA).minY
  /\ getBounds(iouA).maxX > getBounds(iouA).minX

----------------------------------------------------------------------------
(* Claims about sortCorners.                                                 *)

\* C19: sortCorners gives the same result for every order of the same 4
\* corners, a permutation of them with the left corner of each row first at
\* the top and last at the bottom.
C19_OrderIndependent ==
  sortedA # <<>> =>
    /\ sortedA = sortedB
    /\ sortedA \in Reorderings(cornersA)
    /\ sortedA[1][1] <= sortedA[2][1]
    /\ sortedA[4][1] <= sortedA[3][1]

----------------------------------------------------------------------------
(* Claims about the native handles of detectAllContours.                     *)

\* C20: when detectAllContours has returned or thrown, every Mat and
\* MatVector it allocated has been deleted exactly once.
C20_EveryMatDeletedOnce ==
  matOutcome # "running" =>
    \A h \in DOMAIN matMats : matMats[h] \in {"none", "deleted"}

----------------------------------------------------------------------------
(* Claims about the candidates detectAllContours returns                    *)

\* The traced contour a returned candidate was pushed from: its points, its
\* area scaled to original-image pixels and the pass that traced it.
PushedFrom(c, i) ==
  /\ traced[i].pts = c.points
  /\ traced[i].area * imageScale * imageScale = c.area
  /\ MethodOf(i) = c.detectionMethod

\* area within [0.1%, 95%] of the image area, both in original-image pixels
InAreaRange(area) ==
  /\ 1000 * area >= ImageArea * imageScale * imageScale
  /\ 100 * area <= 95 * ImageArea * imageScale * imageScale

\* C21: every candidate returned has at least 3 points and an area from 0.1%
\* to 95% of the image area inclusive, and it is one of the traced contours
\* whose traced area is in that range: a traced contour with an area outside
\* the range is not returned, whichever pass traced it.
C21_AreaFilter ==
  detectDone =>
    \A k \in 1..Len(contours) :
      /\ Len(contours[k].points) >= 3
      /\ InAreaRange(contours[k].area)
      /\ \E i \in 1..Len(traced) :
           /\ PushedFrom(contours[k], i)
           /\ 1000 * traced[i].area >= ImageArea
           /\ 100 * traced[i].area <= 95 * ImageArea

\* A contour of exactly 95% of the image area is returned, next to one
\* traced above the range and one with only 2 points.
C21_Witness ==
  /\ detectDone
  /\ Len(traced) = 3
  /\ \E i \in 1..3 : 100 * traced[i].area > 95 * ImageArea
  /\ \E i \in 1..3 : Len(traced[i].pts) < 3
  /\ Len(contours) = 1
  /\ 100 * contours[1].area = 95 * ImageArea * imageScale * imageScale

\* C22: a returned candidate is paper exactly when the area it holds (after
\* any replacement during deduplication) is strictly more than 25% of the
\* image area in original-image pixels, and an object otherwise.
C22_PaperByArea ==
  detectDone =>
    \A k \in 1..Len(contours) :
      contours[k].isPaper
        <=> (4 * contours[k].area > ImageArea * imageScale * imageScale)

\* An object-sized candidate was replaced by a paper-sized one with more
\* vertices and is returned as paper, next to a candidate of exactly 25% of
\* the image area returned as an object.
C22_Witness ==
  /\ detectDone
  /\ Len(traced) = 3
  /\ traced[1].pts = A4 /\ 4 * traced[1].area < ImageArea
  /\ traced[2].pts = A5 /\ 4 * traced[2].area > ImageArea
  /\ 4 * traced[3].area = ImageArea
  /\ Len(contours) = 2
  /\ contours[1].points = A5 /\ contours[1].isPaper
  /\ PushedFrom(contours[2], 3) /\ ~contours[2].isPaper

\* C23: the returned list is in non-increasing order of area, and so every
\* candidate classified as paper comes before every candidate classified as
\* an object.
C23_SortedByArea ==
  detectDone =>
    \A i, j \in 1..Len(contours) :
      i < j =>
        /\ contours[i].area >= contours[j].area
        /\ ~(~contours[i].isPaper /\ contours[j].isPaper)

\* An object was traced before a sheet of paper, both survive, and the paper
\* is returned first.
C23_Witness ==
  /\ detectDone
  /\ Len(contours) = 2
  /\ \E i, j \in 1..Len(traced) :
       /\ i < j
       /\ PushedFrom(contours[2], i) /\ ~contours[2].isPaper
       /\ PushedFrom(contours[1], j) /\ contours[1].isPaper
       /\ traced[i].area < traced[j].area

----------------------------------------------------------------------------
(* Claims about pointInPolygon.                                              *)

OnBoundary(p, polygon) ==
  \E i \in 1..Len(polygon) :
    OnSegment(p, EdgeOf(polygon, i)[1], EdgeOf(polygon, i)[2])

\* The edges that pass above p.  No vertex has the x of a point tested, so
\* an edge passes over p's column exactly when its ends lie on either side.
EdgesAbove(p, polygon) ==
  { i \in 1..Len(polygon) :
      LET a == EdgeOf(polygon, i)[1]
          b == EdgeOf(polygon, i)[2]
          l == IF a[1] < b[1] THEN a ELSE b
          r == IF a[1] < b[1] THEN b ELSE a
      IN  /\ l[1] < p[1] /\ p[1] < r[1]
          /\ Cross(l, r, p) < 0 }

StrictlyInside(p, polygon) ==
  ~OnBoundary(p, polygon) /\ Cardinality(EdgesAbove(p, polygon)) % 2 = 1

StrictlyOutside(p, polygon) ==
  ~OnBoundary(p, polygon) /\ Cardinality(EdgesAbove(p, polygon)) % 2 = 0

Square10 == << <<0, 0>>, <<10, 0>>, <<10, 10>>, <<0, 10>> >>

\* C24: pointInPolygon answers true for a point strictly inside a simple
\* polygon and false for a point strictly outside it, whichever vertex the
\* list starts with; (5,5) is inside the square (0,0),(10,0),(10,10),(0,10)
\* and (15,15) is outside it.
C24_InsideOutside ==
  pipResults # <<>> =>
    /\ StrictlyInside(pipPoint, pipPolygon)
         => \A r \in 1..Len(pipResults) : pipResults[r]
    /\ StrictlyOutside(pipPoint, pipPolygon)
         => \A r \in 1..Len(pipResults) : ~pipResults[r]
    /\ (pipPolygon = Square10 /\ pipPoint = <<5, 5>>) => pipResults[1]
    /\ (pipPolygon = Square10 /\ pipPoint = <<15, 15>>) => ~pipResults[1]

\* A point inside a polygon with a reflex vertex, level with one of its
\* vertices, has been tested from every starting index.
C24_Witness ==
  /\ pipResults # <<>>
  /\ Len(pipPolygon) = 4
  /\ \E i \in 1..4 :
       Cross(pipPolygon[Before(i, 4)], pipPolygon[i], pipPolygon[(i % 4) + 1])
         * Cross(pipPolygon[i], pipPolygon[(i % 4) + 1],
                 pipPolygon[((i + 1) % 4) + 1]) < 0
  /\ \E i \in 1..4 : pipPolygon[i][2] = pipPoint[2]
  /\ StrictlyInside(pipPoint, pipPolygon)
  /\ \A r \in 1..4 : pipResults[r]

----------------------------------------------------------------------------
(* Claims about calculatePolygonArea.                                        *)

\* C25: calculatePolygonArea gives the same unsigned value for a polygon,
\* for the polygon with its points in reverse order and for the polygon
\* moved by a vector, and 0 for fewer than 3 points; the offset effect
\* reports that same value.
C25_AreaInvariant ==
  /\ areaOf # <<>> =>
       /\ areaOf[1].plain >= 0
       /\ areaOf[1].reversed = areaOf[1].plain
       /\ areaOf[1].translated = areaOf[1].plain
       /\ Len(areaPoints) < 3 => areaOf[1].plain = 0
  /\ (areaOf # <<>> /\ areaReported # <<>>) =>
       areaReported[1] = areaOf[1].plain

\* A polygon whose shoelace sum is negative, with an area other than 0, has
\* been measured as it is, reversed and moved away from the origin.
C25_Witness ==
  /\ areaOf # <<>>
  /\ areaReported # <<>>
  /\ Len(areaPoints) >= 3
  /\ ShoelaceSum(areaPoints, Len(areaPoints)) < 0
  /\ areaVector # <<0, 0>>
  /\ areaOf[1].translated > 0

----------------------------------------------------------------------------
(* Claims about the hole index generateSTL hands to the triangulator.        *)

\* C26: for a hole polygon of n >= 3 vertices the hole start index handed to
\* the triangulator for the top face is the number of outer-boundary
\* vertices, 4, the index of the first hole vertex in the combined list.
C26_HoleStartIndex ==
  (stlDone /\ Len(stlContour) >= 3) => holeIndices = << 4 >>

----------------------------------------------------------------------------
(* Claims about the deduplication loop.                                      *)

\* The candidate the next turn of the loop takes.
Taken == dedupAll[dedupIndex + 1]

\* Accepted entries over the threshold with the candidate that have at least
\* as many vertices as it.
NotShorterDuplicates ==
  { k \in 1..Len(dedupUnique) :
      /\ Overlap(Taken, dedupUnique[k])
      /\ Len(Taken.contour) <= Len(dedupUnique[k].contour) }

C28_NoTwoSurvivorsOverlap ==
  dedupIndex = Len(dedupAll) =>
    \A i, j \in 1..Len(dedupUnique) :
      i < j => ~Overlap(dedupUnique[i], dedupUnique[j])

----------------------------------------------------------------------------
(* Claims about loadOpenCV and getCv.                                        *)

\* C29: however calls of loadOpenCV interleave with a load that succeeds or
\* fails, at most one script element is appended, the calls made while the
\* load is pending all receive one promise, a promise is resolved only when
\* cvInstance is set, and getCv does not throw once a promise handed out by
\* loadOpenCV has resolved.
C29_SingleLoad ==
  /\ Len(scripts) <= 1
  /\ \A c, d \in 1..Len(calls) :
       (calls[c].duringLoad /\ calls[d].duringLoad)
         => calls[c].promise = calls[d].promise
  /\ \A p \in 1..Len(promises) : promises[p] = "resolved" => cvInstance
  /\ \A g \in getCvLog : g.afterResolve => ~g.threw

\* A second call arrived while the script was loading and received the first
\* call's promise; the load succeeded after a poll; a third call came after
\* it, and getCv has returned the instance.
C29_Witness ==
  /\ Len(calls) = 3
  /\ calls[1].duringLoad /\ calls[2].duringLoad /\ ~calls[3].duringLoad
  /\ calls[2].promise = calls[1].promise
  /\ Len(scripts) = 1 /\ scripts[1].phase = "done" /\ scripts[1].attempts >= 1
  /\ promises[calls[1].promise] = "resolved"
  /\ [threw |-> FALSE, afterResolve |-> TRUE] \in getCvLog

\* A load that failed: the calls after it receive the rejected promise and
\* no second script is appended.
C29_WitnessFailed ==
  /\ Len(calls) = 3
  /\ Len(scripts) = 1 /\ scripts[1].phase = "done"
  /\ \A c \in 1..3 : promises[calls[c].promise] = "rejected"
  /\ ~calls[3].duringLoad

----------------------------------------------------------------------------
(* Claims about the wizard.                                                  *)

\* C30: whenever currentStep is 3 or 4 an image and a detected contour are
\* present (imageUrl and contour are not null), so the content of the
\* current step is rendered.
C30_StepHasImageAndContour ==
  currentStep \in {3, 4} =>
    /\ imageUrl # 0
    /\ wizContour # 0
    /\ (Step3Rendered \/ Step4Rendered)

====
